---- MODULE Spec2Model ----
(***************************************************************************)
(* A model of dash-file-cache: the LRUDict container                       *)
(* (caches/lrudict.py), the in-process backend CachePlain and the          *)
(* cross-process backend CacheQueue with its mirror, listener and          *)
(* finalizer (caches/memory.py), the file-backed backend CacheFile         *)
(* (caches/tempfile.py) and the streaming service ServiceData              *)
(* (services/data.py).                                                     *)
(*                                                                         *)
(* A deque is a sequence whose element 1 is the left end: the most recent  *)
(* key of an LRUDict is curkeys[1], the eldest is curkeys[Len(curkeys)].   *)
(***************************************************************************)
EXTENDS Integers, Sequences, FiniteSets, TLC

\* ------------------------------------------------------------------ bounds

\* The largest capacity (maxsize / cache_size) of the runs that store two
\* different values.
MaxCap == 3

\* The largest capacity of the runs that follow the recency order alone: with 4
\* keys a key can lie in the front half of the deque without being its head.
MaxLen == 4

\* One key more than the capacity: enough to overflow a full LRUDict.
Keys == 1..(MaxCap + 1)

OrderKeys == 1..(MaxLen + 1)

\* The number of files a run registers with the service.
MaxUids == 2

Uids == 1..MaxUids

\* The capacities of the cache a ServiceData is given.
SvcCaps == {1, 2}

\* The paths of the files outside the folder of a CacheFile.
Paths == {1, 2}

\* The number of TempDir objects a run creates.
MaxDirs == 2

\* The CacheFile instances of a run.
Caches == {1, 2}

\* The keys of the runs of CacheQueue and CacheFile.
QueueKeys == {1, 2}

\* The largest chunk_size a CacheFile is given, in megabytes.
MaxChunk == 2

\* The length of the longest stream dumped to a CacheFile, in megabytes (one
\* byte more is dumped too).
MaxBlocks == 2

\* No key (an integer that is never a key).
NoKey == MaxCap + MaxLen + 2

\* The values stored by the sampled operations: (info, data) pairs, as CachePlain
\* stores them.
Values == {<<"i1", "d1">>, <<"i2", "d2">>}

NoInfo == "-"

NoData == "-"

\* The steps rotate() is called with.
RotSteps == {-2, -1, 1, 2}

\* ------------------------------------------------------- collections.deque

\* deque.index(x): the 0-based position of the first x, -1 when there is none
\* (Python raises ValueError there).
DequeIndex(s, x) ==
    IF \E i \in 1..Len(s) : s[i] = x
    THEN (CHOOSE i \in 1..Len(s) : s[i] = x /\ \A j \in 1..(i - 1) : s[j] # x) - 1
    ELSE -1

\* deque.rotate(n): n steps to the right; to the left when n is negative.
DequeRotate(s, n) ==
    IF Len(s) = 0 THEN s
    ELSE [i \in 1..Len(s) |-> s[((i - 1 - n) % Len(s)) + 1]]

\* deque.appendleft(x) of a deque(maxlen=maxlen): a full deque drops its right end.
DequeAppendLeft(s, x, maxlen) ==
    IF Len(s) >= maxlen THEN <<x>> \o SubSeq(s, 1, maxlen - 1) ELSE <<x>> \o s

\* deque.extend / deque(iterable, maxlen): only the last maxlen items are kept.
DequeFrom(s, maxlen) ==
    IF Len(s) > maxlen THEN SubSeq(s, Len(s) - maxlen + 1, Len(s)) ELSE s

\* deque.pop(): without the right end.
DequePop(s) == SubSeq(s, 1, Len(s) - 1)

\* deque.popleft(): without the left end.
DequePopLeft(s) == SubSeq(s, 2, Len(s))

\* deque.remove(x): without the first x.
DequeRemove(s, x) ==
    LET i == DequeIndex(s, x) + 1
    IN IF i = 0 THEN s ELSE SubSeq(s, 1, i - 1) \o SubSeq(s, i + 1, Len(s))

\* deque.reverse().
DequeReverse(s) == [i \in 1..Len(s) |-> s[Len(s) + 1 - i]]

SeqSet(s) == {s[i] : i \in 1..Len(s)}

\* ------------------------------------------------------------------- dict

\* del st[k]
DictDel(st, k) == [x \in (DOMAIN st) \ {k} |-> st[x]]

\* st[k] = v
DictSet(st, k, v) == [x \in (DOMAIN st) \cup {k} |-> IF x = k THEN v ELSE st[x]]

EmptyDict == [x \in {} |-> <<NoInfo, NoData>>]

\* The keys of OrderedDict(data): each key once, in the order of its first
\* occurrence.
RECURSIVE OrderedKeys(_)
OrderedKeys(data) ==
    IF Len(data) = 0 THEN <<>>
    ELSE LET front == OrderedKeys(SubSeq(data, 1, Len(data) - 1))
             k == data[Len(data)][1]
         IN IF k \in SeqSet(front) THEN front ELSE Append(front, k)

\* OrderedDict(data)[k]: the value of the last pair with key k.
OrderedValue(data, k) ==
    LET i == CHOOSE i \in 1..Len(data) :
                 data[i][1] = k /\ \A j \in (i + 1)..Len(data) : data[j][1] # k
    IN data[i][2]

\* The data handed to the constructor and to update(): no pair, one pair, or two
\* pairs (of one key or of two) with different values.
DataSeqs ==
    {<<>>}
        \cup {<<(<<k, <<"i1", "d1">> >>)>> : k \in Keys}
        \cup {<<(<<k[1], <<"i1", "d1">> >>), (<<k[2], <<"i2", "d2">> >>)>> : k \in Keys \X Keys}

\* ---------------------------------------------------------------- LRUDict
\* An LRUDict is the record [keys, st, maxsize] of its fields __curkeys (a
\* deque(maxlen=maxsize)), __storage (a dict) and __maxsize. Every operation
\* returns the record after the call, with the call's result beside it.

\* LRUDict.__init__(data, maxsize=maxsize), maxsize > 0.
LRUInit(data, maxsize) ==
    LET okeys == OrderedKeys(data)
        curkeys0 == DequeReverse(DequeFrom(okeys, maxsize))
    IN [keys |-> curkeys0,
        st |-> [k \in SeqSet(curkeys0) |-> OrderedValue(data, k)],
        maxsize |-> maxsize]

\* LRUDict.__contains__
LRUContains(d, key) == key \in DOMAIN d.st

\* LRUDict.move_to_recent: the deque after the call (key is in the deque).
MoveToRecent(d, key) ==
    LET idx == DequeIndex(d.keys, key)
        cur_len == Len(d.keys)
    IN IF idx = 0 THEN d.keys
       ELSE LET idx1 == IF idx < cur_len \div 2 THEN -idx ELSE cur_len - idx
                rotated == DequeRotate(d.keys, idx1)
                key_ == rotated[1]
                idx2 == IF idx1 > 0 THEN idx1 - 1 ELSE idx1 + 1
            IN DequeAppendLeft(DequeRotate(DequePopLeft(rotated), -idx2),
                               key_, d.maxsize)

\* The result of a call: the LRUDict after it, the value returned (info, data),
\* the error raised ("none" when the call returns) and the key it evicted.
Result(d, info, data, err, old) ==
    [d |-> d, info |-> info, data |-> data, err |-> err, old |-> old, ok |-> FALSE]

\* The result of a call that returns a boolean.
Answer(d, ok) ==
    [d |-> d, info |-> NoInfo, data |-> NoData, err |-> "none", old |-> NoKey, ok |-> ok]

\* The result of a call that returns nothing.
Done(d) == Result(d, NoInfo, NoData, "none", NoKey)

\* A __getitem__ that reads the value without move_to_recent.
LRUGetItemPeek(d, key) ==
    IF key \notin DOMAIN d.st
    THEN Result(d, NoInfo, NoData, "KeyError", NoKey)
    ELSE Result(d, d.st[key][1], d.st[key][2], "none", NoKey)

\* LRUDict.__getitem__
LRUGetItem(d, key) ==
    IF key \notin DOMAIN d.st
    THEN Result(d, NoInfo, NoData, "KeyError", NoKey)
    ELSE IF DequeIndex(d.keys, key) < 0
    THEN Result(d, NoInfo, NoData, "ValueError", NoKey)
    ELSE Result([d EXCEPT !.keys = MoveToRecent(d, key)],
                d.st[key][1], d.st[key][2], "none", NoKey)

\* A __setitem__ whose fullness test is len > maxsize: the full deque drops its
\* right end on appendleft and the storage keeps the dropped key.
LRUSetItemOffByOne(d, key, value) ==
    IF LRUContains(d, key)
    THEN Result([d EXCEPT !.keys = MoveToRecent(d, key),
                          !.st = DictSet(d.st, key, value)],
                NoInfo, NoData, "none", NoKey)
    ELSE IF Len(d.keys) > d.maxsize
    THEN LET old_key == d.keys[Len(d.keys)]
         IN Result([d EXCEPT !.keys = DequeAppendLeft(DequePop(d.keys), key, d.maxsize),
                             !.st = DictSet(DictDel(d.st, old_key), key, value)],
                   NoInfo, NoData, "none", old_key)
    ELSE Result([d EXCEPT !.keys = DequeAppendLeft(d.keys, key, d.maxsize),
                          !.st = DictSet(d.st, key, value)],
                NoInfo, NoData, "none", NoKey)

\* A __setitem__ that tests fullness before membership: a full LRUDict evicts
\* its eldest key also when the key is already stored.
LRUSetItemEvictFirst(d, key, value) ==
    IF Len(d.keys) >= d.maxsize
    THEN LET old_key == d.keys[Len(d.keys)]
         IN Result([d EXCEPT !.keys = DequeAppendLeft(DequeRemove(DequePop(d.keys), key),
                                                      key, d.maxsize),
                             !.st = DictSet(DictDel(d.st, old_key), key, value)],
                   NoInfo, NoData, "none", old_key)
    ELSE IF LRUContains(d, key)
    THEN Result([d EXCEPT !.keys = MoveToRecent(d, key),
                          !.st = DictSet(d.st, key, value)],
                NoInfo, NoData, "none", NoKey)
    ELSE Result([d EXCEPT !.keys = DequeAppendLeft(d.keys, key, d.maxsize),
                          !.st = DictSet(d.st, key, value)],
                NoInfo, NoData, "none", NoKey)

\* LRUDict.__setitem__
LRUSetItem(d, key, value) ==
    IF LRUContains(d, key)
    THEN IF DequeIndex(d.keys, key) < 0
         THEN Result(d, NoInfo, NoData, "ValueError", NoKey)
         ELSE Result([d EXCEPT !.keys = MoveToRecent(d, key),
                               !.st = DictSet(d.st, key, value)],
                     NoInfo, NoData, "none", NoKey)
    ELSE IF Len(d.keys) >= d.maxsize
    THEN LET old_key == d.keys[Len(d.keys)]
         IN Result([d EXCEPT !.keys = DequeAppendLeft(DequePop(d.keys), key, d.maxsize),
                             !.st = DictSet(DictDel(d.st, old_key), key, value)],
                   NoInfo, NoData, "none", old_key)
    ELSE Result([d EXCEPT !.keys = DequeAppendLeft(d.keys, key, d.maxsize),
                          !.st = DictSet(d.st, key, value)],
                NoInfo, NoData, "none", NoKey)

\* A __delitem__ that passes over a key that is not stored.
LRUDelItemSilent(d, key) ==
    Result([d EXCEPT !.keys = DequeRemove(d.keys, key), !.st = DictDel(d.st, key)],
           NoInfo, NoData, "none", NoKey)

\* LRUDict.__delitem__
LRUDelItem(d, key) ==
    IF LRUContains(d, key)
    THEN Result([d EXCEPT !.keys = DequeRemove(d.keys, key),
                          !.st = DictDel(d.st, key)],
                NoInfo, NoData, "none", NoKey)
    ELSE Result(d, NoInfo, NoData, "KeyError", NoKey)

\* LRUDict.eldest_popitem: the popped key is returned in the field old.
LRUEldestPopitem(d) ==
    IF Len(d.keys) = 0
    THEN Result(d, NoInfo, NoData, "IndexError", NoKey)
    ELSE LET key == d.keys[Len(d.keys)]
         IN IF key \notin DOMAIN d.st
            THEN Result([d EXCEPT !.keys = DequePop(d.keys)],
                        NoInfo, NoData, "KeyError", NoKey)
            ELSE Result([d EXCEPT !.keys = DequePop(d.keys),
                                  !.st = DictDel(d.st, key)],
                        d.st[key][1], d.st[key][2], "none", key)

\* LRUDict.reverse
LRUReverse(d) == [d EXCEPT !.keys = DequeReverse(d.keys)]

\* LRUDict.rotate
LRURotate(d, n) == [d EXCEPT !.keys = DequeRotate(d.keys, n)]

\* LRUDict.clear
LRUClear(d) == [d EXCEPT !.keys = <<>>, !.st = EmptyDict]

\* MutableMapping.update(data): self[key] = value for each pair in turn.
RECURSIVE LRUUpdate(_, _)
LRUUpdate(d, data) ==
    IF Len(data) = 0 THEN d
    ELSE LRUUpdate(LRUSetItem(d, data[1][1], data[1][2]).d, Tail(data))

\* -------------------------------------------------------------- CachePlain
\* A CachePlain is its field __cache, an LRUDict of (info, data) pairs.

\* CachePlain.__init__(cache_size), cache_size >= 1
PlainInit(cache_size) == LRUInit(<<>>, cache_size)

\* An is_in that looks the key up with __getitem__, which touches it.
PlainIsInTouching(d, key) ==
    IF LRUContains(d, key)
    THEN Answer([d EXCEPT !.keys = MoveToRecent(d, key)], TRUE)
    ELSE Answer(d, FALSE)

\* CachePlain.is_in
PlainIsIn(d, key) == Answer(d, LRUContains(d, key))

\* A dump that keeps the entry of a key that is already stored (setdefault).
PlainDumpKeepsOld(d, key, info, data) ==
    IF LRUContains(d, key)
    THEN Done([d EXCEPT !.keys = MoveToRecent(d, key)])
    ELSE LRUSetItem(d, key, <<info, data>>)

\* CachePlain.dump
PlainDump(d, key, info, data) == LRUSetItem(d, key, <<info, data>>)

\* CachePlain.load: info, value = self.__cache[key]; the field data is what the
\* returned producer _deferred() returns, the value captured here.
PlainLoad(d, key) ==
    LET got == LRUGetItem(d, key)
        info == got.info
        value == got.data
    IN Result(got.d, info, value, got.err, NoKey)

\* CacheAbstract.load_info: load(key)[0]
PlainLoadInfo(d, key) ==
    LET got == PlainLoad(d, key)
    IN Result(got.d, got.info, NoData, got.err, NoKey)

\* A remove that returns the info and forgets the del.
PlainRemoveKeeps(d, key) == PlainLoadInfo(d, key)

\* CachePlain.remove, run without interruption: info = self.load_info(key);
\* del self.__cache[key]; return info
PlainRemove(d, key) ==
    LET got == PlainLoadInfo(d, key)
    IN IF got.err # "none" THEN got
       ELSE LET gone == LRUDelItem(got.d, key)
            IN Result(gone.d, IF gone.err = "none" THEN got.info ELSE NoInfo,
                      NoData, gone.err, NoKey)

\* ------------------------------------------------------------------ state

VARIABLES
    maxsize,    \* LRUDict.__maxsize of the cache's LRUDict
    curkeys,    \* LRUDict.__curkeys: the keys, most recent first
    storage,    \* LRUDict.__storage: key -> (info, data)
    last,       \* the last call made: its arguments and its outcome
    touched,    \* history: the stored keys, the most recently touched first
    run,        \* history: the keys of the dumps made in a row, all different
    pc,         \* ServiceData: where each request thread is in stream()
    req,        \* ServiceData: the uid each thread is streaming
    tinfo,      \* ServiceData: the info each thread got from load()
    nextUid,    \* ServiceData: the next uid register() will generate
    served,     \* history: the one-time uids whose stream was consumed to the end
    lock,       \* LRUDict.__lock: the thread that holds it, NoThread when free
    loc,        \* LRUDict: the call each thread is in and its local variables
    queue,      \* CacheQueue: the messages in the shared queue, the next one first
    bound,      \* CacheQueue.__qobj is not None
    qfunc,      \* CacheQueue.__qobj_func is not None
    finalizer,  \* CacheQueue.__finalizer is not None
    registry,   \* CacheQueue.threads holds the listener
    listener,   \* the listener thread: "none", "get", "set" or "done"
    lmsg,       \* the message the listener has taken from the queue
    fin,        \* the finalizer of the owner: "no", "pop", "join" or "done"
    mirror,     \* a CacheQueueMirror has been handed to the workers
    sent,       \* history: the messages enqueued before the sentinel
    applied,    \* history: the messages the listener has set in the map
    disk,       \* CacheFile: for each key, its .json and .tmp files in the folder
    chunk_size, \* CacheFile.__chunk_size, in bytes
    fio,        \* CacheFile: the dump or the read in progress, its local variables
    dumped,     \* history: the length of the stream last dumped under each key
    ext,        \* the files outside the folder of the CacheFile, by their path
    reqstream,  \* DeferredRequestStream: its fields, its response and its provider
    tempdir     \* the TempDir objects, the folders on the disk and the CacheFiles

svcVars == <<pc, req, tinfo, nextUid, served>>

lockVars == <<lock, loc>>

\* The variables that the calls made by one thread at a time leave alone.
queueVars == <<queue, bound, qfunc, finalizer, registry, listener, lmsg, fin, mirror,
               sent, applied>>

fileVars == <<disk, chunk_size, fio, dumped, ext>>

netVars == <<reqstream>>

dirVars == <<tempdir>>

otherVars == <<lockVars, queueVars, fileVars, netVars, dirVars>>

vars == <<maxsize, curkeys, storage, last, touched, run, pc, req, tinfo, nextUid, served,
          lock, loc, queue, bound, qfunc, finalizer, registry, listener, lmsg, fin,
          mirror, sent, applied, disk, chunk_size, fio, dumped, ext, reqstream,
          tempdir>>

\* The threads that serve requests.
Threads == {1, 2}

\* The LRUDict the calls act on.
Self == [keys |-> curkeys, st |-> storage, maxsize |-> maxsize]

NoVal == <<NoInfo, NoData>>

\* The record of a call: op(key, val) returned (info, data) or the boolean ok,
\* or raised err, and evicted or popped the key old. Of the state it was made in:
\* had, the key was stored; full, the LRUDict was full; rt, the call before it
\* was a dump of the same key.
Call(op, key, val, r) ==
    [op |-> op, key |-> key, val |-> val, info |-> r.info, data |-> r.data,
     err |-> r.err, old |-> r.old, ok |-> r.ok,
     had |-> key \in DOMAIN storage, full |-> Len(curkeys) >= maxsize,
     rt |-> last.op = "dump" /\ last.key = key]

\* The LRUDict becomes r.d and the call is recorded.
Becomes(op, key, val, r) ==
    /\ curkeys' = r.d.keys
    /\ storage' = r.d.st
    /\ last' = Call(op, key, val, r)
    /\ UNCHANGED <<maxsize, touched, run>>
    /\ UNCHANGED svcVars
    /\ UNCHANGED otherVars

\* No thread holds the lock.
NoThread == 0

\* The bytes of a megabyte, 1024 * 1024, the unit of CacheFile's chunk_size.
MB == 1048576

\* The length recorded for a key under which nothing was dumped.
NoLength == -1

\* A key of the folder that has neither file. Of the .json file of a key, json
\* is info["type"] ("-": there is no file) and once is
\* info["one_time_service"]; of its .tmp file, has_tmp tells that it exists,
\* tmp is the bytes written to it from a stream and path is the path written
\* to it as text (NoKey: none).
NoFiles == [json |-> "-", once |-> FALSE, has_tmp |-> FALSE, tmp |-> <<>>, path |-> NoKey]

\* A path outside the folder at which there is no file.
NoFile == [exists |-> FALSE, data |-> <<>>]

\* No file outside the folder.
NoExt == [p \in Paths |-> NoFile]

\* A text is the sequence of its pieces. The name of a file unknown yet.
NoName == <<"file">>

\* The info of a request before the response headers refine it.
RequestInfo ==
    [type |-> "request", data_size |-> 0, file_name |-> NoName, content_type |-> <<>>,
     mime_type |-> <<"application/octet-stream">>, one_time_service |-> FALSE]

\* No response header.
NoHeaders == [h \in {} |-> <<>>]

\* DeferredRequestStream(info, data) after __init__: self.__pool and
\* self.__request are None (pool, request); fallback is
\* data["file_name_fallback"]; of the response, headers and the chunks left
\* to read; of the generator that provide() returns, its state gen ("none":
\* there is none) and the chunks it has yielded; err is the error of the last
\* call.
NoStream ==
    [info |-> RequestInfo, fallback |-> <<>>, pool |-> FALSE, request |-> FALSE,
     headers |-> NoHeaders, left |-> 0, gen |-> "none", yielded |-> 0, err |-> "none"]

\* No path: the argument None, and the path of a TempDir that was not created.
NoPath == 0

\* tempfile.mkdtemp() for the TempDir d: a path that nothing else names.
FreshPath(d) == Cardinality(Paths) + d

DirPaths == Paths \cup {FreshPath(d) : d \in 1..MaxDirs}

\* The user, as a holder of a reference to a TempDir (the other holders are the
\* CacheFile instances).
User == 0

\* A TempDir that was not created: its path, whether its finalizer is alive,
\* who holds a reference to it, and how many times its finalizer has run.
NoTempDir == [path |-> NoPath, alive |-> FALSE, held |-> {}, runs |-> 0]

\* A CacheFile that was not constructed: whether it is live, and its TempDir.
NoCache == [made |-> FALSE, live |-> FALSE, dir |-> 0]

\* No TempDir, no folder on the disk, no CacheFile, and the process runs.
NoDirs ==
    [objs |-> [d \in 1..MaxDirs |-> NoTempDir], dirs |-> [p \in DirPaths |-> FALSE],
     caches |-> [c \in Caches |-> NoCache], exited |-> FALSE]

\* The local variables of a CacheFile that is in no call: the key, the stream
\* being read (src) and the position in it, the chunk just read, the bytes
\* read so far from a loaded file (got), the type and the one_time_service
\* found in the .json file, and the path read from the .tmp file; of the stream
\* served from the loaded file, how many times its callback has been called
\* (calls) and its handle closed (closes); of a StreamFinalizer, what it was
\* built with (truncate, close, callback) and how many times it has truncated
\* the handle (cut).
NoIO ==
    [op |-> "idle", key |-> NoKey, src |-> <<>>, pos |-> 0, chunk |-> <<>>,
     got |-> <<>>, type |-> "-", once |-> FALSE, path |-> NoKey,
     calls |-> 0, closes |-> 0,
     truncate |-> FALSE, close |-> FALSE, callback |-> FALSE, cut |-> 0]

\* The local variables of a thread that is in no call; snap is the LRUDict the
\* thread found when it took the lock.
NoLoc ==
    [op |-> "-", key |-> NoKey, val |-> NoVal, info |-> NoInfo, data |-> NoData,
     err |-> "none", old |-> NoKey, ok |-> FALSE,
     snap |-> [keys |-> <<>>, st |-> EmptyDict, maxsize |-> 1]]

\* The sentinel the finalizer puts in the queue (None).
Sentinel == [key |-> NoKey, info |-> NoInfo, data |-> NoData]

\* The info read by a thread that has loaded none.
NoMeta == [type |-> "-", data_size |-> 0, one_time_service |-> FALSE]

\* The state after the construction of the LRUDict d: no request is being served
\* and no thread is in a call.
ConstructedCache(d) ==
    /\ maxsize = d.maxsize
    /\ curkeys = d.keys
    /\ storage = d.st
    /\ last = [op |-> "init", key |-> NoKey, val |-> NoVal, info |-> NoInfo,
               data |-> NoData, err |-> "none", old |-> NoKey, ok |-> FALSE,
               had |-> FALSE, full |-> FALSE, rt |-> FALSE]
    /\ touched = <<>>
    /\ run = <<>>
    /\ pc = [t \in Threads |-> "idle"]
    /\ req = [t \in Threads |-> NoKey]
    /\ tinfo = [t \in Threads |-> NoMeta]
    /\ nextUid = 1
    /\ served = {}
    /\ lock = NoThread
    /\ loc = [t \in Threads |-> NoLoc]

\* The state after the construction of the LRUDict d by an object that has no
\* queue.
Constructed(d) ==
    /\ ConstructedCache(d)
    /\ disk = [k \in QueueKeys |-> NoFiles]
    /\ chunk_size = MB
    /\ fio = NoIO
    /\ dumped = [k \in QueueKeys |-> NoLength]
    /\ ext = NoExt
    /\ reqstream = NoStream
    /\ tempdir = NoDirs
    /\ queue = <<>>
    /\ bound = FALSE
    /\ qfunc = FALSE
    /\ finalizer = FALSE
    /\ registry = FALSE
    /\ listener = "none"
    /\ lmsg = Sentinel
    /\ fin = "no"
    /\ mirror = FALSE
    /\ sent = <<>>
    /\ applied = <<>>

\* ------------------------------------------------------- LRUDict, one thread

\* LRUDict(data, maxsize=c) for a capacity c >= 1: the constructor raises
\* ValueError for maxsize <= 0 and no object exists then.
Init == \E c \in 1..MaxCap, data \in DataSeqs : Constructed(LRUInit(data, c))

\* value = d[key]
Get(key) == Becomes("get", key, NoVal, LRUGetItem(Self, key))

\* d[key] = value
Set(key, value) == Becomes("set", key, value, LRUSetItem(Self, key, value))

\* del d[key]
Del(key) == Becomes("del", key, NoVal, LRUDelItem(Self, key))

\* key in d
Contains(key) == Becomes("contains", key, NoVal, Answer(Self, LRUContains(Self, key)))

\* d.eldest_popitem()
EldestPopitem == Becomes("eldest_popitem", NoKey, NoVal, LRUEldestPopitem(Self))

\* d.update(data)
Update(data) == Becomes("update", NoKey, NoVal, Done(LRUUpdate(Self, data)))

\* d.rotate(n)
Rotate(n) == Becomes("rotate", NoKey, NoVal, Done(LRURotate(Self, n)))

\* d.reverse()
Reverse == Becomes("reverse", NoKey, NoVal, Done(LRUReverse(Self)))

\* d.clear()
Clear == Becomes("clear", NoKey, NoVal, Done(LRUClear(Self)))

Next ==
    \/ \E key \in Keys : Get(key)
    \/ \E key \in Keys, value \in Values : Set(key, value)
    \/ \E key \in Keys : Del(key)
    \/ \E key \in Keys : Contains(key)
    \/ EldestPopitem
    \/ \E data \in DataSeqs : Update(data)
    \/ \E n \in RotSteps : Rotate(n)
    \/ Reverse
    \/ Clear

\* An LRUDict called by one thread.
Spec == Init /\ [][Next]_vars

\* ---------------------------------------------------- CachePlain, one thread

\* CachePlain(cache_size=c) for a capacity c >= 1.
InitPlain == \E c \in 1..MaxCap : Constructed(PlainInit(c))

\* cache.dump(key, info, data)
Dump(key, info, data) ==
    Becomes("dump", key, <<info, data>>, PlainDump(Self, key, info, data))

\* info, deferred = cache.load(key); deferred()
Load(key) == Becomes("load", key, NoVal, PlainLoad(Self, key))

\* cache.remove(key)
Remove(key) == Becomes("remove", key, NoVal, PlainRemove(Self, key))

\* cache.is_in(key)
IsIn(key) == Becomes("is_in", key, NoVal, PlainIsIn(Self, key))

NextPlain ==
    \/ \E key \in Keys, value \in Values : Dump(key, value[1], value[2])
    \/ \E key \in Keys : Load(key)
    \/ \E key \in Keys : Remove(key)
    \/ \E key \in Keys : IsIn(key)
    \/ \E key \in Keys : Get(key)
    \/ \E key \in Keys, value \in Values : Set(key, value)
    \/ \E key \in Keys : Contains(key)

\* A CachePlain and the LRUDict it exposes (CachePlain.cache), called by one
\* thread.
SpecPlain == InitPlain /\ [][NextPlain]_vars

\* ------------------------------------------- CachePlain, the recency order
\* The same calls on a cache of up to MaxLen entries that all hold one value,
\* with the history of the touches beside it.

OrderValue == <<"i1", "d1">>

\* s without x.
Without(s, x) == SelectSeq(s, LAMBDA y : y # x)

\* The touch order after a call with result r that touched key: key first,
\* without the key the call evicted. A call that raised touched nothing.
Touch(r, key) ==
    IF r.err # "none" THEN touched
    ELSE <<key>> \o Without(Without(touched, key), r.old)

\* The dumps made in a row after a dump of key: the longest run of dumps of
\* different keys that ends with it.
RunAfter(key) ==
    LET i == DequeIndex(run, key) + 1
    IN SubSeq(run, i + 1, Len(run)) \o <<key>>

\* The LRUDict becomes r.d, the call is recorded, and so is its touch of key.
Tracked(op, key, val, r) ==
    /\ curkeys' = r.d.keys
    /\ storage' = r.d.st
    /\ last' = Call(op, key, val, r)
    /\ touched' = Touch(r, key)
    /\ run' = IF op = "dump" THEN RunAfter(key) ELSE <<>>
    /\ UNCHANGED maxsize
    /\ UNCHANGED svcVars
    /\ UNCHANGED otherVars

\* CachePlain(cache_size=c) for a capacity c >= 1.
InitOrder == \E c \in 1..MaxLen : Constructed(PlainInit(c))

\* value = cache.cache[key]
OrderGet(key) == Tracked("get", key, NoVal, LRUGetItem(Self, key))

\* cache.cache[key] = value
OrderSet(key) == Tracked("set", key, OrderValue, LRUSetItem(Self, key, OrderValue))

\* cache.dump(key, info, data)
OrderDump(key) ==
    Tracked("dump", key, OrderValue,
            PlainDump(Self, key, OrderValue[1], OrderValue[2]))

\* info, deferred = cache.load(key); deferred()
OrderLoad(key) == Tracked("load", key, NoVal, PlainLoad(Self, key))

\* The ways of iterating an LRUDict: iter(d), d.keys(), d.items(), d.values().
IterOps == {"iter", "keys", "items", "values"}

\* LRUDict.__iter__ and LRUDictView.__iter__: an iterator over the key deque,
\* from its left end on.
LRUIter(d) == d.keys

\* LRUDictView.__getitem__: the value is read from the storage.
ViewGetItem(d, key) ==
    IF key \notin DOMAIN d.st
    THEN Result(d, NoInfo, NoData, "KeyError", NoKey)
    ELSE Result(d, d.st[key][1], d.st[key][2], "none", NoKey)

\* The LRUDict after items() or values() has looked up keys[i] and the keys
\* after it through the view.
RECURSIVE ViewLookups(_, _, _)
ViewLookups(d, keys, i) ==
    IF i > Len(keys) THEN d
    ELSE ViewLookups(ViewGetItem(d, keys[i]).d, keys, i + 1)

\* list(iter(d)), list(d.keys()), list(d.items()) or list(d.values()): items and
\* values look every key they yield up in the view. The call records the
\* first key it yielded and, as old, the last one.
Iterate(how) ==
    LET keys == LRUIter(Self)
        d == IF how \in {"items", "values"} THEN ViewLookups(Self, keys, 1) ELSE Self
    IN /\ curkeys' = d.keys
       /\ storage' = d.st
       /\ last' = Call(how, IF keys = <<>> THEN NoKey ELSE keys[1], NoVal,
                       Result(d, NoInfo, NoData, "none",
                              IF keys = <<>> THEN NoKey ELSE keys[Len(keys)]))
       /\ run' = <<>>
       /\ UNCHANGED <<maxsize, touched>>
       /\ UNCHANGED svcVars
       /\ UNCHANGED otherVars

NextOrder ==
    \/ \E key \in OrderKeys : OrderGet(key)
    \/ \E key \in OrderKeys : OrderSet(key)
    \/ \E key \in OrderKeys : OrderDump(key)
    \/ \E key \in OrderKeys : OrderLoad(key)
    \/ \E how \in IterOps : Iterate(how)

\* A CachePlain and its LRUDict, called by one thread with gets and sets only.
SpecOrder == InitOrder /\ [][NextOrder]_vars

\* ------------------------------------------------------------ ServiceData
\* A ServiceData on a CachePlain: register() dumps a file under a new uid and
\* stream(uid) serves it. Every thread serves one request at a time; a step is
\* what a thread does under one acquisition of the LRUDict's lock, or between
\* two of them.

\* register(): get_file_info for a file of data_size bytes.
FileInfo(data_size, one_time_service) ==
    [type |-> "bytes", data_size |-> data_size, one_time_service |-> one_time_service]

\* The files registered: one-time or not, and an empty one.
SvcInfos == {FileInfo(1, TRUE), FileInfo(1, FALSE), FileInfo(0, FALSE)}

\* StreamFinalizer always runs at_closed.
HasCallbackAlways(info) == TRUE

\* stream(): callback_on_exit=at_closed if one_time_service else None
HasCallback(info) == info.one_time_service

\* The record of a call of the service.
SvcEvent(op, uid, err, old) ==
    [op |-> op, key |-> uid, val |-> NoVal, info |-> NoInfo, data |-> NoData,
     err |-> err, old |-> old, ok |-> FALSE,
     had |-> uid \in DOMAIN storage, full |-> Len(curkeys) >= maxsize, rt |-> FALSE]

\* The cache becomes d.
CacheBecomes(d) ==
    /\ curkeys' = d.keys
    /\ storage' = d.st
    /\ UNCHANGED <<maxsize, touched, run>>

\* The call op of thread t ends, with err raised ("none": it returns).
Ends(t, op, err) ==
    /\ pc' = [pc EXCEPT ![t] = "idle"]
    /\ req' = [req EXCEPT ![t] = NoKey]
    /\ tinfo' = [tinfo EXCEPT ![t] = NoMeta]
    /\ last' = SvcEvent(op, req[t], err, NoKey)

\* ServiceData(cache=CachePlain(c))
InitSvc == \E c \in SvcCaps : Constructed(PlainInit(c))

\* ServiceData.register: uid = uuid4().hex, a new one; cache.dump(uid, info, data)
Register(t, info) ==
    /\ UNCHANGED otherVars
    /\ pc[t] = "idle"
    /\ nextUid <= MaxUids
    /\ LET r == PlainDump(Self, nextUid, info, "d1")
       IN /\ CacheBecomes(r.d)
          /\ last' = SvcEvent("register", nextUid, r.err, r.old)
    /\ nextUid' = nextUid + 1
    /\ UNCHANGED <<pc, req, tinfo, served>>

\* ServiceData.stream, the membership test: if uid not in self.__cache: raise
\* FileNotFoundError
StreamCheck(t, uid) ==
    /\ UNCHANGED otherVars
    /\ pc[t] = "idle"
    /\ IF PlainIsIn(Self, uid).ok
       THEN /\ pc' = [pc EXCEPT ![t] = "load"]
            /\ req' = [req EXCEPT ![t] = uid]
            /\ UNCHANGED last
       ELSE /\ last' = SvcEvent("stream", uid, "FileNotFoundError", NoKey)
            /\ UNCHANGED <<pc, req>>
    /\ UNCHANGED <<maxsize, curkeys, storage, touched, run, tinfo, nextUid, served>>

\* ServiceData.stream, from the load to the return of the response: info,
\* deferred = self.__cache.load(uid), the tests of info["type"] and of
\* info["data_size"], and the provider, which has not started yet.
StreamLoad(t) ==
    /\ UNCHANGED otherVars
    /\ pc[t] = "load"
    /\ LET r == PlainLoad(Self, req[t])
       IN /\ CacheBecomes(r.d)
          /\ IF r.err # "none" THEN Ends(t, "stream", r.err)
             ELSE IF r.info.type \notin {"path", "str", "bytes", "request"}
             THEN Ends(t, "stream", "TypeError")
             ELSE IF r.info.data_size <= 0
             THEN Ends(t, "stream", "FileNotFoundError")
             ELSE /\ pc' = [pc EXCEPT ![t] = "enter"]
                  /\ tinfo' = [tinfo EXCEPT ![t] = r.info]
                  /\ last' = SvcEvent("stream", req[t], "none", NoKey)
                  /\ UNCHANGED req
    /\ UNCHANGED <<nextUid, served>>

\* The handle registered under uid, the one every load of uid returns, has been
\* truncated and closed by at_closed: a thread has left the with block of a
\* one-time stream of uid.
HandleClosed(uid) ==
    \/ uid \in served
    \/ \E u \in Threads : pc[u] \in {"at_closed", "del"} /\ req[u] = uid

\* provider, entering the with block: _deferred(), where loader() calls
\* fobj.seek(0), which raises ValueError on a closed handle, and
\* StreamFinalizer.__enter__
ProviderEnter(t) ==
    /\ UNCHANGED otherVars
    /\ pc[t] = "enter"
    /\ IF HandleClosed(req[t])
       THEN Ends(t, "consume", "ValueError")
       ELSE /\ pc' = [pc EXCEPT ![t] = "read"]
            /\ UNCHANGED <<last, req, tinfo>>
    /\ UNCHANGED <<maxsize, curkeys, storage, touched, run, nextUid, served>>

\* provider, the loop: the chunks are read and yielded until read() returns
\* none; read() raises ValueError on a closed handle, and so does the
\* truncate(0) of at_closed that __exit__ then calls.
ProviderRead(t) ==
    /\ UNCHANGED otherVars
    /\ pc[t] = "read"
    /\ IF HandleClosed(req[t])
       THEN Ends(t, "consume", "ValueError")
       ELSE /\ pc' = [pc EXCEPT ![t] = "exit"]
            /\ UNCHANGED <<last, req, tinfo>>
    /\ UNCHANGED <<maxsize, curkeys, storage, touched, run, nextUid, served>>

\* StreamFinalizer.__exit__: with a callback, at_closed truncates and closes the
\* handle and goes on to cache.remove(uid), and raises ValueError when the
\* handle is closed already; without one the stream is over.
FinalizerExit(t) ==
    /\ UNCHANGED otherVars
    /\ pc[t] = "exit"
    /\ IF HasCallback(tinfo[t])
       THEN IF HandleClosed(req[t])
            THEN Ends(t, "consume", "ValueError")
            ELSE /\ pc' = [pc EXCEPT ![t] = "at_closed"]
                 /\ UNCHANGED <<last, req, tinfo>>
       ELSE Ends(t, "consume", "none")
    /\ UNCHANGED <<maxsize, curkeys, storage, touched, run, nextUid, served>>

\* at_closed, cache.remove(uid), its first half: info = self.load_info(key)
AtClosedLoadInfo(t) ==
    /\ UNCHANGED otherVars
    /\ pc[t] = "at_closed"
    /\ LET r == PlainLoadInfo(Self, req[t])
       IN /\ CacheBecomes(r.d)
          /\ IF r.err # "none"
             THEN /\ Ends(t, "consume", r.err)
                  /\ served' = served \cup {req[t]}
             ELSE /\ pc' = [pc EXCEPT ![t] = "del"]
                  /\ UNCHANGED <<last, req, tinfo, served>>
    /\ UNCHANGED nextUid

\* at_closed, cache.remove(uid), its second half: del self.__cache[key]
AtClosedDel(t) ==
    /\ UNCHANGED otherVars
    /\ pc[t] = "del"
    /\ LET r == LRUDelItem(Self, req[t])
       IN /\ CacheBecomes(r.d)
          /\ Ends(t, "consume", r.err)
    /\ served' = served \cup {req[t]}
    /\ UNCHANGED nextUid

\* A step of thread t.
Serve(t) ==
    \/ \E info \in SvcInfos : Register(t, info)
    \/ \E uid \in Uids : StreamCheck(t, uid)
    \/ StreamLoad(t)
    \/ ProviderEnter(t)
    \/ ProviderRead(t)
    \/ FinalizerExit(t)
    \/ AtClosedLoadInfo(t)
    \/ AtClosedDel(t)

NextSvc == \E t \in Threads : Serve(t)

\* A ServiceData whose threads serve requests concurrently.
SpecSvc == InitSvc /\ [][NextSvc]_vars

\* No other thread is serving a request.
Alone(t) == \A u \in Threads \ {t} : pc[u] = "idle"

NextSvcSeq == \E t \in Threads : Alone(t) /\ Serve(t)

\* A ServiceData that serves one request at a time, each to its end.
SpecSvcSeq == InitSvc /\ [][NextSvcSeq]_vars

\* ------------------------------------------------- LRUDict, several threads
\* Threads call get, set, delete, contains and eldest_popitem on one LRUDict.
\* Every method body is a `with self.__lock` block; a step is one statement of
\* the block, so that a thread can be preempted between two of them.

\* The capacities and keys of the LRUDict the threads share.
LockCaps == {1, 2}

LockKeys == 1..(MaxUids + 1)

LockOps == {"get", "set", "del", "contains", "eldest_popitem"}

\* An acquire that does not wait for the holder.
LockFreeAlways(t) == TRUE

\* threading.RLock.acquire: the lock is free, or held by the thread itself.
LockFree(t) == lock \in {NoThread, t}

\* The first statement of the body of op.
FirstStep(op) ==
    CASE op = "get" -> "get_read"
      [] op = "set" -> "set_test"
      [] op = "del" -> "del_test"
      [] op = "contains" -> "has_read"
      [] op = "eldest_popitem" -> "pop_keys"

\* What op returns or raises when nothing runs between its statements.
Atomic(op, d, key, val) ==
    CASE op = "get" -> LRUGetItem(d, key)
      [] op = "set" -> LRUSetItem(d, key, val)
      [] op = "del" -> LRUDelItem(d, key)
      [] op = "contains" -> Answer(d, LRUContains(d, key))
      [] op = "eldest_popitem" -> LRUEldestPopitem(d)

\* Thread t goes on to the statement at, its local variables become l.
Goes(t, at, l) ==
    /\ pc' = [pc EXCEPT ![t] = at]
    /\ loc' = [loc EXCEPT ![t] = l]
    /\ UNCHANGED <<maxsize, last, touched, run, req, tinfo, nextUid, served, lock>>
    /\ UNCHANGED <<queueVars, fileVars, netVars, dirVars>>

\* The statement raises err: the with block is left.
Raises(t, err) == Goes(t, "ret", [loc[t] EXCEPT !.err = err])

\* LRUDict(maxsize=c), empty
InitLock == \E c \in LockCaps : Constructed(LRUInit(<<>>, c))

\* with self.__lock: thread t enters the body of op(key, val).
LockAcquire(t, op, key, val) ==
    /\ pc[t] = "idle"
    /\ LockFree(t)
    /\ lock' = t
    /\ pc' = [pc EXCEPT ![t] = FirstStep(op)]
    /\ loc' = [loc EXCEPT ![t] = [NoLoc EXCEPT !.op = op, !.key = key, !.val = val,
                                               !.snap = Self]]
    /\ UNCHANGED <<maxsize, curkeys, storage, last, touched, run, req, tinfo, nextUid,
                   served>>
    /\ UNCHANGED <<queueVars, fileVars, netVars, dirVars>>

\* __getitem__: value = self.__storage[key]
GetRead(t) ==
    /\ pc[t] = "get_read"
    /\ UNCHANGED <<curkeys, storage>>
    /\ IF loc[t].key \in DOMAIN storage
       THEN Goes(t, "get_move", [loc[t] EXCEPT !.info = storage[loc[t].key][1],
                                              !.data = storage[loc[t].key][2]])
       ELSE Raises(t, "KeyError")

\* __getitem__: self.move_to_recent(key)
GetMove(t) ==
    /\ pc[t] = "get_move"
    /\ UNCHANGED storage
    /\ IF DequeIndex(curkeys, loc[t].key) < 0
       THEN UNCHANGED curkeys /\ Raises(t, "ValueError")
       ELSE curkeys' = MoveToRecent(Self, loc[t].key) /\ Goes(t, "ret", loc[t])

\* __setitem__: if key in self / elif len(self.__curkeys) >= self.maxsize / else
SetTest(t) ==
    /\ pc[t] = "set_test"
    /\ UNCHANGED <<curkeys, storage>>
    /\ Goes(t, IF loc[t].key \in DOMAIN storage THEN "set_move"
               ELSE IF Len(curkeys) >= maxsize THEN "set_pop" ELSE "set_push", loc[t])

\* __setitem__: self.move_to_recent(key)
SetMove(t) ==
    /\ pc[t] = "set_move"
    /\ UNCHANGED storage
    /\ IF DequeIndex(curkeys, loc[t].key) < 0
       THEN UNCHANGED curkeys /\ Raises(t, "ValueError")
       ELSE curkeys' = MoveToRecent(Self, loc[t].key) /\ Goes(t, "set_store", loc[t])

\* __setitem__: old_key = self.__curkeys.pop()
SetPop(t) ==
    /\ pc[t] = "set_pop"
    /\ UNCHANGED storage
    /\ IF Len(curkeys) = 0
       THEN UNCHANGED curkeys /\ Raises(t, "IndexError")
       ELSE /\ curkeys' = DequePop(curkeys)
            /\ Goes(t, "set_del", [loc[t] EXCEPT !.old = curkeys[Len(curkeys)]])

\* __setitem__: del self.__storage[old_key]
SetDel(t) ==
    /\ pc[t] = "set_del"
    /\ UNCHANGED curkeys
    /\ IF loc[t].old \notin DOMAIN storage
       THEN UNCHANGED storage /\ Raises(t, "KeyError")
       ELSE storage' = DictDel(storage, loc[t].old) /\ Goes(t, "set_push", loc[t])

\* __setitem__: self.__curkeys.appendleft(key)
SetPush(t) ==
    /\ pc[t] = "set_push"
    /\ UNCHANGED storage
    /\ curkeys' = DequeAppendLeft(curkeys, loc[t].key, maxsize)
    /\ Goes(t, "set_store", loc[t])

\* __setitem__: self.__storage[key] = value
SetStore(t) ==
    /\ pc[t] = "set_store"
    /\ UNCHANGED curkeys
    /\ storage' = DictSet(storage, loc[t].key, loc[t].val)
    /\ Goes(t, "ret", loc[t])

\* __delitem__: if key in self / else: raise KeyError
DelTest(t) ==
    /\ pc[t] = "del_test"
    /\ UNCHANGED <<curkeys, storage>>
    /\ IF loc[t].key \in DOMAIN storage
       THEN Goes(t, "del_keys", loc[t])
       ELSE Raises(t, "KeyError")

\* __delitem__: self.__curkeys.remove(key)
DelKeys(t) ==
    /\ pc[t] = "del_keys"
    /\ UNCHANGED storage
    /\ IF DequeIndex(curkeys, loc[t].key) < 0
       THEN UNCHANGED curkeys /\ Raises(t, "ValueError")
       ELSE curkeys' = DequeRemove(curkeys, loc[t].key) /\ Goes(t, "del_store", loc[t])

\* __delitem__: del self.__storage[key]
DelStore(t) ==
    /\ pc[t] = "del_store"
    /\ UNCHANGED curkeys
    /\ IF loc[t].key \notin DOMAIN storage
       THEN UNCHANGED storage /\ Raises(t, "KeyError")
       ELSE storage' = DictDel(storage, loc[t].key) /\ Goes(t, "ret", loc[t])

\* __contains__: is_in = key in self.__storage
HasRead(t) ==
    /\ pc[t] = "has_read"
    /\ UNCHANGED <<curkeys, storage>>
    /\ Goes(t, "ret", [loc[t] EXCEPT !.ok = loc[t].key \in DOMAIN storage])

\* eldest_popitem: key = self.__curkeys.pop()
PopKeys(t) ==
    /\ pc[t] = "pop_keys"
    /\ UNCHANGED storage
    /\ IF Len(curkeys) = 0
       THEN UNCHANGED curkeys /\ Raises(t, "IndexError")
       ELSE /\ curkeys' = DequePop(curkeys)
            /\ Goes(t, "pop_store", [loc[t] EXCEPT !.old = curkeys[Len(curkeys)]])

\* eldest_popitem: val = self.__storage.pop(key)
PopStore(t) ==
    /\ pc[t] = "pop_store"
    /\ UNCHANGED curkeys
    /\ IF loc[t].old \notin DOMAIN storage
       THEN UNCHANGED storage /\ Raises(t, "KeyError")
       ELSE /\ storage' = DictDel(storage, loc[t].old)
            /\ Goes(t, "ret", [loc[t] EXCEPT !.info = storage[loc[t].old][1],
                                             !.data = storage[loc[t].old][2]])

\* The end of the with block: the lock is released and the call returns, or
\* raises loc[t].err. A key popped by a set is not part of what set returns.
LockRelease(t) ==
    /\ pc[t] = "ret"
    /\ lock' = IF lock = t THEN NoThread ELSE lock
    /\ pc' = [pc EXCEPT ![t] = "idle"]
    /\ loc' = [loc EXCEPT ![t] = NoLoc]
    /\ last' = Call(loc[t].op, loc[t].key, loc[t].val,
                    [info |-> loc[t].info, data |-> loc[t].data, err |-> loc[t].err,
                     old |-> IF loc[t].err = "none" THEN loc[t].old ELSE NoKey,
                     ok |-> loc[t].ok])
    /\ UNCHANGED <<maxsize, curkeys, storage, touched, run, req, tinfo, nextUid, served>>
    /\ UNCHANGED <<queueVars, fileVars, netVars, dirVars>>

\* LRUDict.copy: the body is not a `with self.__lock` block; it reads the key
\* deque and the storage of the LRUDict as they are when the thread runs it.
LRUCopy(d) == [keys |-> d.keys, st |-> d.st, maxsize |-> d.maxsize]

\* Thread t, in no other call, calls copy() without waiting for the holder of
\* the lock; ok tells whether the key deque and the storage of the copy hold the
\* same keys.
Copy(t) ==
    /\ pc[t] = "idle"
    /\ last' = Call("copy", NoKey, NoVal,
                    Answer(Self, SeqSet(LRUCopy(Self).keys) = DOMAIN LRUCopy(Self).st))
    /\ UNCHANGED <<maxsize, curkeys, storage, touched, run, req, tinfo, nextUid, served,
                   pc, lock, loc>>
    /\ UNCHANGED <<queueVars, fileVars, netVars, dirVars>>

\* A statement of thread t.
LockStep(t) ==
    \/ \E op \in LockOps, key \in LockKeys, val \in Values : LockAcquire(t, op, key, val)
    \/ GetRead(t)
    \/ GetMove(t)
    \/ SetTest(t)
    \/ SetMove(t)
    \/ SetPop(t)
    \/ SetDel(t)
    \/ SetPush(t)
    \/ SetStore(t)
    \/ DelTest(t)
    \/ DelKeys(t)
    \/ DelStore(t)
    \/ HasRead(t)
    \/ PopKeys(t)
    \/ PopStore(t)
    \/ LockRelease(t)
    \/ Copy(t)

NextLock == \E t \in Threads : LockStep(t)

\* One LRUDict called by several threads.
SpecLock == InitLock /\ [][NextLock]_vars

\* ------------------------------------------------------------- CacheQueue
\* A CacheQueue built in the main process, its listener thread, its finalizer
\* and the CacheQueueMirror handed to the worker processes. The map of the
\* owner is its LRUDict (curkeys, storage); every call on the LRUDict is one
\* step, as its lock makes it.

\* The number of messages enqueued before the sentinel, and after it.
MaxMsgs == 2

\* What the constructor and the setter are given as qobj: a queue, a function
\* that returns one, or None.
QobjArgs == {"queue", "func", "none"}

\* A queue that delivers the newest message first.
QueuePutFront(q, m) == <<m>> \o q

\* queue.Queue.put(m)
QueuePut(q, m) == Append(q, m)

\* The outcome of reading or assigning the property qobj: the error raised,
\* the binding afterwards, and whether __init_listener was called.
Binding(err, b, f, start) == [err |-> err, bound |-> b, qfunc |-> f, start |-> start]

\* CacheQueue.qobj, the getter, in the state (b, f, fz) of __qobj, __qobj_func
\* and __finalizer.
QobjGet(b, f, fz) ==
    IF b THEN Binding("none", b, f, FALSE)
    ELSE IF ~f THEN Binding("ValueError", b, f, FALSE)
    ELSE IF fz THEN Binding("ValueError", b, f, FALSE)
    ELSE Binding("none", TRUE, FALSE, TRUE)

\* A setter that rebinds the queue whenever it is given one.
QobjSetUnchecked(b, f, fz, val) ==
    IF val = "queue" THEN Binding("none", TRUE, FALSE, TRUE)
    ELSE Binding("none", FALSE, f, FALSE)

\* CacheQueue.qobj, the setter, given val: a queue or None.
QobjSet(b, f, fz, val) ==
    IF b THEN Binding("ValueError", b, f, FALSE)
    ELSE IF fz THEN Binding("ValueError", b, f, FALSE)
    ELSE IF val = "queue" THEN Binding("none", TRUE, FALSE, TRUE)
    ELSE Binding("none", FALSE, f, FALSE)

\* A listener that takes every message for the sentinel.
IsSentinelAlways(m) == TRUE

\* __get_listener: if data is None
IsSentinel(m) == m = Sentinel

\* A finalizer that puts no sentinel.
FinalizerPutNothing(q) == q

\* __get_finalizer: qobj.put(None)
FinalizerPut(q) == QueuePut(q, Sentinel)

\* CacheQueue.is_in, called in the main process or not.
QueueIsIn(main, d, key) ==
    IF ~main THEN Answer(d, FALSE) ELSE Answer(d, LRUContains(d, key))

\* CacheQueue.load, called in the main process or not.
QueueLoad(main, d, key) ==
    IF ~main THEN Result(d, NoInfo, NoData, "NotImplementedError", NoKey)
    ELSE LET got == LRUGetItem(d, key)
             info == got.info
             value == got.data
         IN Result(got.d, info, value, got.err, NoKey)

\* CacheQueue.remove: info = self.load_info(key); del self.__cache[key]
QueueRemove(main, d, key) ==
    LET got == QueueLoad(main, d, key)
    IN IF got.err # "none" THEN Result(got.d, NoInfo, NoData, got.err, NoKey)
       ELSE LET gone == LRUDelItem(got.d, key)
            IN Result(gone.d, IF gone.err = "none" THEN got.info ELSE NoInfo,
                      NoData, gone.err, NoKey)

\* A mirror is_in that looks the key up in the owner's map.
MirrorIsInReads(d, key) == Answer(d, LRUContains(d, key))

\* CacheQueueMirror.is_in
MirrorIsIn(d, key) == Answer(d, FALSE)

\* CacheQueueMirror.load
MirrorLoad(d, key) == Result(d, NoInfo, NoData, "NotImplementedError", NoKey)

\* CacheQueueMirror.remove
MirrorRemove(d, key) == Result(d, NoInfo, NoData, "NotImplementedError", NoKey)

\* The call op(key, val) with the result r is recorded and the map becomes r.d.
QueueCall(op, key, val, r) ==
    /\ curkeys' = r.d.keys
    /\ storage' = r.d.st
    /\ last' = Call(op, key, val, r)
    /\ UNCHANGED <<maxsize, touched, run>>
    /\ UNCHANGED <<svcVars, lockVars, fileVars, netVars, dirVars>>

\* __init_listener, in the main process: the listener thread is started, put
\* in the registry, and the finalizer is set.
InitListener ==
    /\ listener' = "get"
    /\ registry' = TRUE
    /\ finalizer' = TRUE

\* The binding becomes g.
Binds(g) ==
    /\ bound' = g.bound
    /\ qfunc' = g.qfunc
    /\ IF g.start THEN InitListener ELSE UNCHANGED <<listener, registry, finalizer>>

\* The message m is put in the queue; it is before the sentinel when the
\* finalizer has not run.
Puts(m) ==
    /\ queue' = QueuePut(queue, m)
    /\ sent' = IF fin = "no" THEN Append(sent, m) ELSE sent

\* There is room for one more message.
Room == IF fin = "no" THEN Len(sent) < MaxMsgs ELSE Len(queue) < MaxMsgs

\* CacheQueue.__init__(cache_size, qobj), in the main process
InitQueue ==
    \E c \in SvcCaps, qobj \in QobjArgs :
        /\ ConstructedCache(PlainInit(c))
        /\ disk = [k \in QueueKeys |-> NoFiles]
        /\ chunk_size = MB
        /\ fio = NoIO
        /\ dumped = [k \in QueueKeys |-> NoLength]
        /\ ext = NoExt
        /\ reqstream = NoStream
        /\ tempdir = NoDirs
        /\ queue = <<>>
        /\ bound = (qobj = "queue")
        /\ qfunc = (qobj = "func")
        /\ finalizer = (qobj = "queue")
        /\ registry = (qobj = "queue")
        /\ listener = IF qobj = "queue" THEN "get" ELSE "none"
        /\ lmsg = Sentinel
        /\ fin = "no"
        /\ mirror = FALSE
        /\ sent = <<>>
        /\ applied = <<>>

\* cache.qobj = val
SetQobj(val) ==
    /\ fin = "no"
    /\ LET g == QobjSet(bound, qfunc, finalizer, val)
       IN /\ Binds(g)
          /\ QueueCall("set_qobj", NoKey, NoVal, Result(Self, NoInfo, NoData, g.err, NoKey))
    /\ UNCHANGED <<queue, lmsg, fin, mirror, sent, applied>>

\* cache.mirror: CacheQueueMirror(self.qobj)
Mirror ==
    /\ fin = "no"
    /\ LET g == QobjGet(bound, qfunc, finalizer)
       IN /\ Binds(g)
          /\ mirror' = (mirror \/ g.err = "none")
          /\ QueueCall("mirror", NoKey, NoVal, Result(Self, NoInfo, NoData, g.err, NoKey))
    /\ UNCHANGED <<queue, lmsg, fin, sent, applied>>

\* A dump that also sets the entry in the map of the owner.
QueueDumpDirect(key, val) ==
    /\ fin = "no"
    /\ Room
    /\ LET g == QobjGet(bound, qfunc, finalizer)
       IN /\ Binds(g)
          /\ IF g.err = "none"
             THEN Puts([key |-> key, info |-> val[1], data |-> val[2]])
             ELSE UNCHANGED <<queue, sent>>
          /\ QueueCall("dump", key, val,
                       IF g.err = "none" THEN PlainDump(Self, key, val[1], val[2])
                       ELSE Result(Self, NoInfo, NoData, g.err, NoKey))
    /\ UNCHANGED <<lmsg, fin, mirror, applied>>

\* CacheQueue.dump, in the main process: self.qobj.put((key, info, data))
QueueDump(key, val) ==
    /\ fin = "no"
    /\ Room
    /\ LET g == QobjGet(bound, qfunc, finalizer)
       IN /\ Binds(g)
          /\ IF g.err = "none"
             THEN Puts([key |-> key, info |-> val[1], data |-> val[2]])
             ELSE UNCHANGED <<queue, sent>>
          /\ QueueCall("dump", key, val, Result(Self, NoInfo, NoData, g.err, NoKey))
    /\ UNCHANGED <<lmsg, fin, mirror, applied>>

\* The call of is_in, load or remove on the owner, in the main process or in
\* another one, where it leaves the owner's map alone.
OwnerCall(op, main, key, r) ==
    /\ fin = "no"
    /\ QueueCall(IF main THEN op ELSE "sub_" \o op, key, NoVal,
                 IF main THEN r ELSE [r EXCEPT !.d = Self])
    /\ UNCHANGED queueVars

\* cache.is_in(key)
OwnerIsIn(main, key) == OwnerCall("is_in", main, key, QueueIsIn(main, Self, key))

\* cache.load(key)
OwnerLoad(main, key) == OwnerCall("load", main, key, QueueLoad(main, Self, key))

\* cache.remove(key)
OwnerRemove(main, key) == OwnerCall("remove", main, key, QueueRemove(main, Self, key))

\* mirror.dump(key, info, data), in a worker: self.__qobj.put((key, info, data))
MirrorDump(key, val) ==
    /\ mirror
    /\ Room
    /\ Puts([key |-> key, info |-> val[1], data |-> val[2]])
    /\ QueueCall("mirror_dump", key, val, Done(Self))
    /\ UNCHANGED <<bound, qfunc, finalizer, registry, listener, lmsg, fin, mirror, applied>>

\* mirror.is_in(key), mirror.load(key) or mirror.remove(key), in a worker
MirrorCall(op, key, r) ==
    /\ mirror
    /\ QueueCall(op, key, NoVal, r)
    /\ UNCHANGED queueVars

\* __get_listener: data = qobj.get(); if data is None: break
ListenerGet ==
    /\ listener = "get"
    /\ Len(queue) > 0
    /\ queue' = Tail(queue)
    /\ IF IsSentinel(Head(queue))
       THEN listener' = "done" /\ UNCHANGED lmsg
       ELSE listener' = "set" /\ lmsg' = Head(queue)
    /\ UNCHANGED <<maxsize, curkeys, storage, last, touched, run>>
    /\ UNCHANGED <<svcVars, lockVars, fileVars, netVars, dirVars>>
    /\ UNCHANGED <<bound, qfunc, finalizer, registry, fin, mirror, sent, applied>>

\* __get_listener: (key, info, value) = data; cache[key] = (info, value)
ListenerSet ==
    /\ listener = "set"
    /\ LET r == LRUSetItem(Self, lmsg.key, <<lmsg.info, lmsg.data>>)
       IN curkeys' = r.d.keys /\ storage' = r.d.st
    /\ applied' = Append(applied, lmsg)
    /\ listener' = "get"
    /\ lmsg' = Sentinel
    /\ UNCHANGED <<maxsize, last, touched, run>>
    /\ UNCHANGED <<svcVars, lockVars, fileVars, netVars, dirVars>>
    /\ UNCHANGED <<queue, bound, qfunc, finalizer, registry, fin, mirror, sent>>

\* The steps of the finalizer leave the map and the calls alone.
FinalizerFrame ==
    /\ UNCHANGED <<maxsize, curkeys, storage, last, touched, run>>
    /\ UNCHANGED <<svcVars, lockVars, fileVars, netVars, dirVars>>
    /\ UNCHANGED <<bound, qfunc, finalizer, listener, lmsg, mirror, sent, applied>>

\* The owner is finalized. __get_finalizer: qobj.put(None)
FinPut ==
    /\ fin = "no"
    /\ finalizer
    /\ queue' = FinalizerPut(queue)
    /\ fin' = "pop"
    /\ UNCHANGED registry
    /\ FinalizerFrame

\* __get_finalizer: listener = cls.threads.pop(listener_name, None)
FinPop ==
    /\ fin = "pop"
    /\ registry' = FALSE
    /\ fin' = IF registry THEN "join" ELSE "done"
    /\ UNCHANGED queue
    /\ FinalizerFrame

\* __get_finalizer: listener.join() returns when the listener has terminated.
FinJoin ==
    /\ fin = "join"
    /\ listener = "done"
    /\ fin' = "done"
    /\ UNCHANGED <<queue, registry>>
    /\ FinalizerFrame

\* The data path: dumps by the owner and by the mirror, loads by the owner,
\* the listener and the finalizer.
NextQueue ==
    \/ Mirror
    \/ \E key \in QueueKeys, val \in Values : QueueDump(key, val)
    \/ \E key \in QueueKeys, val \in Values : MirrorDump(key, val)
    \/ \E key \in QueueKeys : OwnerLoad(TRUE, key)
    \/ ListenerGet
    \/ ListenerSet
    \/ FinPut
    \/ FinPop
    \/ FinJoin

\* A CacheQueue, its mirror, its listener and its finalizer.
SpecQueue == InitQueue /\ [][NextQueue]_vars

\* The same, with a listener thread and a finalizer that are scheduled fairly.
SpecQueueFair ==
    /\ SpecQueue
    /\ WF_vars(ListenerGet) /\ WF_vars(ListenerSet)
    /\ WF_vars(FinPop) /\ WF_vars(FinJoin)

\* The calls of the owner, in the main process and in another one, and of the
\* mirror, while the listener fills the map.
NextQueueCalls ==
    \/ \E val \in {"queue", "none"} : SetQobj(val)
    \/ Mirror
    \/ \E key \in QueueKeys, val \in Values : QueueDump(key, val)
    \/ \E main \in BOOLEAN, key \in QueueKeys : OwnerIsIn(main, key)
    \/ \E main \in BOOLEAN, key \in QueueKeys : OwnerLoad(main, key)
    \/ \E main \in BOOLEAN, key \in QueueKeys : OwnerRemove(main, key)
    \/ \E key \in QueueKeys, val \in Values : MirrorDump(key, val)
    \/ \E key \in QueueKeys : MirrorCall("mirror_is_in", key, MirrorIsIn(Self, key))
    \/ \E key \in QueueKeys : MirrorCall("mirror_load", key, MirrorLoad(Self, key))
    \/ \E key \in QueueKeys : MirrorCall("mirror_remove", key, MirrorRemove(Self, key))
    \/ ListenerGet
    \/ ListenerSet

\* A CacheQueue and its mirror, called from several processes.
SpecQueueCalls == InitQueue /\ [][NextQueueCalls]_vars

\* ---------------------------------------- CacheQueue, the first use
\* The getter of the property qobj, statement by statement: dump and mirror
\* read the property, and neither they nor the getter take a lock. A thread
\* keeps in loc[t].ok that it has invoked the factory and in loc[t].data that it
\* has started a listener thread.

FirstUses == {"dump", "mirror"}

Started == "started"

\* The threads that have invoked the factory, and those that have started a
\* listener thread.
Invoked == {t \in Threads : loc[t].ok}

Starters == {t \in Threads : loc[t].data = Started}

\* The dumps that have read the property and not yet put their message.
Putting == {t \in Threads : pc[t] # "idle" /\ loc[t].op = "dump"}

\* Thread t goes on to the statement at of the getter with the locals l; the
\* map and the calls made are left alone.
QobjGoes(t, at, l) ==
    /\ pc' = [pc EXCEPT ![t] = at]
    /\ loc' = [loc EXCEPT ![t] = l]
    /\ UNCHANGED <<maxsize, curkeys, storage, touched, run, req, tinfo, nextUid, served,
                   lock>>
    /\ UNCHANGED <<fileVars, netVars, dirVars>>
    /\ UNCHANGED <<lmsg, fin, mirror, applied>>

\* The getter raises err in thread t: the call of dump or mirror ends.
QobjRaises(t, err) ==
    /\ QobjGoes(t, "idle", loc[t])
    /\ last' = Call(loc[t].op, loc[t].key, loc[t].val,
                    Result(Self, NoInfo, NoData, err, NoKey))

\* Thread t calls dump(key, val) or reads mirror; the getter tests
\* `if self.__qobj is None`.
QobjTest(t, op, key, val) ==
    /\ pc[t] = "idle"
    /\ op = "dump" => Len(sent) + Cardinality(Putting) < MaxMsgs
    /\ QobjGoes(t, IF bound THEN "qobj_return" ELSE "qobj_func",
                [loc[t] EXCEPT !.op = op, !.key = key, !.val = val])
    /\ UNCHANGED <<last, queue, sent, bound, qfunc, finalizer, registry, listener>>

\* if self.__qobj_func is None: raise ValueError
QobjFuncTest(t) ==
    /\ pc[t] = "qobj_func"
    /\ IF qfunc
       THEN QobjGoes(t, "qobj_finalizer", loc[t]) /\ UNCHANGED last
       ELSE QobjRaises(t, "ValueError")
    /\ UNCHANGED <<queue, sent, bound, qfunc, finalizer, registry, listener>>

\* if self.__finalizer is not None: raise ValueError
QobjFinalizerTest(t) ==
    /\ pc[t] = "qobj_finalizer"
    /\ IF finalizer
       THEN QobjRaises(t, "ValueError")
       ELSE QobjGoes(t, "qobj_call", loc[t]) /\ UNCHANGED last
    /\ UNCHANGED <<queue, sent, bound, qfunc, finalizer, registry, listener>>

\* self.__qobj = self.__qobj_func(): the factory is invoked and its queue, a
\* new and empty one, is bound; calling None raises TypeError.
QobjCall(t) ==
    /\ pc[t] = "qobj_call"
    /\ IF qfunc
       THEN /\ QobjGoes(t, "qobj_init", [loc[t] EXCEPT !.ok = TRUE])
            /\ bound' = TRUE
            /\ queue' = <<>>
            /\ UNCHANGED last
       ELSE QobjRaises(t, "TypeError") /\ UNCHANGED <<bound, queue>>
    /\ UNCHANGED <<sent, qfunc, finalizer, registry, listener>>

\* self.__init_listener(self.__qobj), in the main process
QobjInitListener(t) ==
    /\ pc[t] = "qobj_init"
    /\ InitListener
    /\ QobjGoes(t, "qobj_clear", [loc[t] EXCEPT !.data = Started])
    /\ UNCHANGED <<last, queue, sent, bound, qfunc>>

\* self.__qobj_func = None
QobjClear(t) ==
    /\ pc[t] = "qobj_clear"
    /\ qfunc' = FALSE
    /\ QobjGoes(t, "qobj_return", loc[t])
    /\ UNCHANGED <<last, queue, sent, bound, finalizer, registry, listener>>

\* return self.__qobj, and what the caller does with the queue: dump puts its
\* message, mirror builds a CacheQueueMirror.
QobjReturn(t) ==
    /\ pc[t] = "qobj_return"
    /\ pc' = [pc EXCEPT ![t] = "idle"]
    /\ IF loc[t].op = "dump"
       THEN /\ Puts([key |-> loc[t].key, info |-> loc[t].val[1], data |-> loc[t].val[2]])
            /\ UNCHANGED mirror
       ELSE /\ mirror' = TRUE
            /\ UNCHANGED <<queue, sent>>
    /\ last' = Call(loc[t].op, loc[t].key, loc[t].val, Done(Self))
    /\ UNCHANGED <<maxsize, curkeys, storage, touched, run, req, tinfo, nextUid, served,
                   lock, loc>>
    /\ UNCHANGED <<fileVars, netVars, dirVars>>
    /\ UNCHANGED <<bound, qfunc, finalizer, registry, listener, lmsg, fin, applied>>

NextQobj ==
    \E t \in Threads :
        \/ \E key \in QueueKeys, val \in Values : QobjTest(t, "dump", key, val)
        \/ QobjTest(t, "mirror", NoKey, NoVal)
        \/ QobjFuncTest(t)
        \/ QobjFinalizerTest(t)
        \/ QobjCall(t)
        \/ QobjInitListener(t)
        \/ QobjClear(t)
        \/ QobjReturn(t)

\* The threads of the main process make the first uses of one CacheQueue.
SpecQobj == InitQueue /\ [][NextQobj]_vars

\* ------------------------------------- CachePlain, the producer of a load
\* Threads dump and load on one CachePlain; a thread that has loaded a key keeps
\* the info and the producer _deferred, and calls the producer later.

\* A producer that reads the map when it is called.
DeferredRereads(value, d, key) ==
    IF key \in DOMAIN d.st THEN d.st[key][2] ELSE NoData

\* CachePlain.load, _deferred(): return value, the value load() unpacked.
Deferred(value, d, key) == value

\* The step of thread t records the call op(key, val) with the result r.
DeferCall(t, at, l, op, key, val, r) ==
    /\ pc' = [pc EXCEPT ![t] = at]
    /\ loc' = [loc EXCEPT ![t] = l]
    /\ curkeys' = r.d.keys
    /\ storage' = r.d.st
    /\ last' = Call(op, key, val, r)
    /\ UNCHANGED <<maxsize, touched, run, req, tinfo, nextUid, served, lock>>
    /\ UNCHANGED <<queueVars, fileVars, netVars, dirVars>>

\* CachePlain(cache_size=c)
InitDeferred == \E c \in SvcCaps : Constructed(PlainInit(c))

\* cache.dump(key, info, data) by thread t
DeferDump(t, key, val) ==
    /\ pc[t] = "idle"
    /\ DeferCall(t, "idle", loc[t], "dump", key, val,
                 PlainDump(Self, key, val[1], val[2]))

\* info, deferred = cache.load(key) by thread t
DeferLoad(t, key) ==
    /\ pc[t] = "idle"
    /\ LET r == PlainLoad(Self, key)
       IN IF r.err # "none"
          THEN DeferCall(t, "idle", loc[t], "load", key, NoVal, r)
          ELSE DeferCall(t, "loaded",
                         [NoLoc EXCEPT !.op = "load", !.key = key, !.info = r.info,
                                       !.data = r.data],
                         "load", key, NoVal, r)

\* deferred() by thread t
DeferInvoke(t) ==
    /\ pc[t] = "loaded"
    /\ DeferCall(t, "idle", NoLoc, "deferred", loc[t].key, NoVal,
                 Result(Self, loc[t].info, Deferred(loc[t].data, Self, loc[t].key),
                        "none", NoKey))

NextDeferred ==
    \E t \in Threads :
        \/ \E key \in QueueKeys, val \in Values : DeferDump(t, key, val)
        \/ \E key \in QueueKeys : DeferLoad(t, key)
        \/ DeferInvoke(t)

\* A CachePlain whose producers are called after other threads have dumped.
SpecDeferred == InitDeferred /\ [][NextDeferred]_vars

\* ----------------------------------------- CachePlain, remove and dump
\* Threads dump and remove on one CachePlain; remove is two calls of the
\* LRUDict, each under the lock of the LRUDict, with nothing that holds the
\* two together. The listener of a CacheQueue sets its messages in the map as
\* the dumping thread does here.

\* remove(key) by thread t: info = self.load_info(key)
RemoveLoadInfo(t, key) ==
    /\ pc[t] = "idle"
    /\ LET r == PlainLoadInfo(Self, key)
       IN IF r.err # "none"
          THEN DeferCall(t, "idle", loc[t], "remove", key, NoVal, r)
          ELSE DeferCall(t, "remove_del",
                         [NoLoc EXCEPT !.op = "remove", !.key = key, !.info = r.info],
                         "load_info", key, NoVal, r)

\* remove(key) by thread t: del self.__cache[key]; return info
RemoveDel(t) ==
    /\ pc[t] = "remove_del"
    /\ LET gone == LRUDelItem(Self, loc[t].key)
       IN DeferCall(t, "idle", NoLoc, "remove", loc[t].key, NoVal,
                    Result(gone.d, IF gone.err = "none" THEN loc[t].info ELSE NoInfo,
                           NoData, gone.err, NoKey))

NextRemove ==
    \E t \in Threads :
        \/ \E key \in QueueKeys, val \in Values : DeferDump(t, key, val)
        \/ \E key \in QueueKeys : RemoveLoadInfo(t, key)
        \/ RemoveDel(t)

\* A CachePlain whose entries are removed while other threads dump.
SpecRemove == InitDeferred /\ [][NextRemove]_vars

\* -------------------------------------------------------------- CacheFile
\* A CacheFile on its folder, called by one thread. The bytes of a stream are
\* not modelled one by one: a byte string is the sequence of the ranges
\* <<a, b>> (a < b) of the dumped stream it is made of, bytes a to b - 1, with
\* adjacent ranges merged; a stream of n bytes holds Bytes(0, n).

\* The bytes a to b - 1 of the dumped stream.
Bytes(a, b) == IF a < b THEN << <<a, b>> >> ELSE <<>>

\* len(s)
RECURSIVE BytesLen(_)
BytesLen(s) == IF Len(s) = 0 THEN 0 ELSE (s[1][2] - s[1][1]) + BytesLen(Tail(s))

\* s followed by r.
BytesCat(s, r) ==
    IF Len(s) = 0 THEN r
    ELSE IF Len(r) = 0 THEN s
    ELSE IF s[Len(s)][2] = r[1][1]
    THEN SubSeq(s, 1, Len(s) - 1) \o << <<s[Len(s)][1], r[1][2]>> >> \o Tail(r)
    ELSE s \o r

\* s[p : p + n]
RECURSIVE BytesSlice(_, _, _)
BytesSlice(s, p, n) ==
    IF Len(s) = 0 \/ n <= 0 THEN <<>>
    ELSE LET a == s[1][1]
             size == s[1][2] - s[1][1]
         IN IF p >= size THEN BytesSlice(Tail(s), p - size, n)
            ELSE LET take == IF n < size - p THEN n ELSE size - p
                 IN BytesCat(Bytes(a + p, a + p + take),
                             BytesSlice(Tail(s), 0, n - take))

\* _data.read(n) of a stream s at the position p: n bytes at most, and all the
\* bytes that are left when n is negative.
IORead(s, p, n) == BytesSlice(s, p, IF n < 0 THEN BytesLen(s) ELSE n)

\* The lengths of the streams dumped: empty, one byte, and around every whole
\* number of megabytes.
Lengths == {0, 1} \cup {k * MB + e : k \in 1..MaxBlocks, e \in {-1, 0, 1}}

\* The sizes the reader of a loaded file reads with: everything at once, or
\* pieces.
ReadSizes == {MB - 1, MB, (MaxBlocks + 1) * MB}

\* A dump loop that stops at the first chunk shorter than the chunk size.
GoesOnFull(chunk, size) == BytesLen(chunk) = size

\* CacheFile.dump: while chunk
GoesOn(chunk, size) == BytesLen(chunk) > 0

\* The result of a CacheFile call that raised err or returned.
FileResult(err) == Result(Self, NoInfo, NoData, err, NoKey)

\* The step of the CacheFile is recorded as the call op(key); the folder
\* becomes files, the local variables io.
FileCall(op, key, err, files, io) ==
    /\ disk' = files
    /\ fio' = io
    /\ last' = Call(op, key, NoVal, FileResult(err))
    /\ UNCHANGED <<maxsize, curkeys, storage, touched, run, chunk_size, ext>>
    /\ UNCHANGED <<svcVars, lockVars, queueVars, netVars, dirVars>>

\* A step inside a call: the folder becomes files, the local variables io.
FileStep(files, io) ==
    /\ disk' = files
    /\ fio' = io
    /\ UNCHANGED <<maxsize, curkeys, storage, last, touched, run, chunk_size, dumped,
                   ext>>
    /\ UNCHANGED <<svcVars, lockVars, queueVars, netVars, dirVars>>

\* CacheFile(cache_dir, chunk_size=c) for c >= 1: self.__chunk_size =
\* chunk_size * 1024 * 1024; the folder is empty.
InitFile ==
    \E c \in 1..MaxChunk :
        /\ ConstructedCache(PlainInit(1))
        /\ queue = <<>> /\ bound = FALSE /\ qfunc = FALSE /\ finalizer = FALSE
        /\ registry = FALSE /\ listener = "none" /\ lmsg = Sentinel /\ fin = "no"
        /\ mirror = FALSE /\ sent = <<>> /\ applied = <<>>
        /\ disk = [k \in QueueKeys |-> NoFiles]
        /\ chunk_size = c * MB
        /\ fio = NoIO
        /\ dumped = [k \in QueueKeys |-> NoLength]
        /\ ext = NoExt
        /\ reqstream = NoStream
        /\ tempdir = NoDirs

\* cache.dump(key, info, data) with info["type"] = data["type"] = "bytes" and
\* data["data"] a stream of n bytes at position 0: the .json file is written,
\* the first chunk is read, the .tmp file is opened with "wb".
FileDumpOpen(key, n) ==
    /\ fio.op = "idle"
    /\ LET chunk == IORead(Bytes(0, n), 0, chunk_size)
       IN FileCall("dump", key, "none",
                   [disk EXCEPT ![key] = [NoFiles EXCEPT !.json = "bytes",
                                                         !.has_tmp = TRUE]],
                   [NoIO EXCEPT !.op = "dump", !.key = key, !.src = Bytes(0, n),
                                !.pos = BytesLen(chunk), !.chunk = chunk])
    /\ dumped' = [dumped EXCEPT ![key] = n]

\* CacheFile.dump, the body of the loop: fobj.write(chunk); chunk =
\* _data.read(self.__chunk_size)
FileDumpWrite ==
    /\ fio.op = "dump"
    /\ GoesOn(fio.chunk, chunk_size)
    /\ LET chunk == IORead(fio.src, fio.pos, chunk_size)
       IN FileStep([disk EXCEPT ![fio.key].tmp = BytesCat(@, fio.chunk)],
                   [fio EXCEPT !.pos = @ + BytesLen(chunk), !.chunk = chunk])

\* CacheFile.dump, the end of the loop: the .tmp file is closed.
FileDumpClose ==
    /\ fio.op = "dump"
    /\ ~GoesOn(fio.chunk, chunk_size)
    /\ FileStep(disk, NoIO)

\* info, deferred = cache.load(key): the .json file is read.
FileLoad(key) ==
    /\ fio.op = "idle"
    /\ UNCHANGED dumped
    /\ IF disk[key].json = "-"
       THEN FileCall("load", key, "FileNotFoundError", disk, NoIO)
       ELSE FileCall("load", key, "none", disk,
                     [NoIO EXCEPT !.op = "loaded", !.key = key, !.type = disk[key].json,
                                  !.once = disk[key].once])

\* deferred(): for the type "bytes", open(path + ".tmp", "rb"); for the type
\* "path", the path is read from the .tmp file and the file is closed.
FileDeferred ==
    /\ fio.op = "loaded"
    /\ UNCHANGED dumped
    /\ IF fio.type \notin {"path", "str", "bytes"}
       THEN FileCall("deferred", fio.key, "TypeError", disk, NoIO)
       ELSE IF ~disk[fio.key].has_tmp
       THEN FileCall("deferred", fio.key, "FileNotFoundError", disk, NoIO)
       ELSE IF fio.type = "path"
       THEN FileCall("deferred", fio.key, "none", disk,
                     [fio EXCEPT !.op = "path", !.path = disk[fio.key].path])
       ELSE FileCall("deferred", fio.key, "none", disk, [fio EXCEPT !.op = "read"])

\* The reader of the loaded file: data = fobj.read(size), until it is empty.
FileRead(size) ==
    /\ fio.op = "read"
    /\ LET data == BytesSlice(disk[fio.key].tmp, fio.pos, size)
       IN FileStep(disk, IF Len(data) = 0 THEN [fio EXCEPT !.op = "eof"]
                         ELSE [fio EXCEPT !.pos = @ + BytesLen(data),
                                          !.got = BytesCat(@, data)])

\* The reader closes the file it has read to the end.
FileClose ==
    /\ fio.op = "eof"
    /\ FileStep(disk, NoIO)

NextFile ==
    \/ \E key \in QueueKeys, n \in Lengths : FileDumpOpen(key, n)
    \/ FileDumpWrite
    \/ FileDumpClose
    \/ \E key \in QueueKeys : FileLoad(key)
    \/ FileDeferred
    \/ \E size \in ReadSizes : FileRead(size)
    \/ FileClose

\* A CacheFile that dumps byte streams and reads them back.
SpecFile == InitFile /\ [][NextFile]_vars

\* The values the chunk size is set to.
ChunkSizes == -1..MaxChunk

\* cache.chunk_size = val, between two calls: self.__chunk_size = int(val) *
\* 1024 * 1024, whatever val is; ServiceData has the same setter.
SetChunkSize(val) ==
    /\ fio.op = "idle"
    /\ chunk_size' = val * MB
    /\ last' = Call("chunk_size", NoKey, NoVal, FileResult("none"))
    /\ UNCHANGED <<maxsize, curkeys, storage, touched, run, disk, fio, dumped, ext>>
    /\ UNCHANGED <<svcVars, lockVars, queueVars, netVars, dirVars>>

NextChunk ==
    \/ NextFile
    \/ \E val \in ChunkSizes : SetChunkSize(val)

\* A CacheFile that dumps byte streams and reads them back, and whose chunk size
\* is set between the calls.
SpecChunk == InitFile /\ [][NextChunk]_vars

\* ----------------------------------------------------- CacheFile, the calls
\* The calls of a CacheFile and the streams a ServiceData serves from it, made
\* by one thread. The files are those of the folder of the cache and those
\* outside it that the payloads of the kind "path" name.

\* The files before the step.
Fs == [disk |-> disk, ext |-> ext]

\* The result of a call: the files after it, the type of the info it returned
\* or the error it raised, the boolean it returned.
FsResult(fs, info, err) == [fs |-> fs, info |-> info, err |-> err, ok |-> FALSE]

\* The file at the path p outside the folder.
ExtFile(p) == [exists |-> TRUE, data |-> Bytes(0, p * MB + 1)]

\* The types of the payloads dumped in one step: a path, and one that
\* CacheFile does not recognise.
DumpTypes == {"path", "request"}

\* CacheFile.is_in
CacheFileIsIn(fs, key) == fs.disk[key].has_tmp /\ fs.disk[key].json # "-"

\* A dump that keeps one entry in the folder: the files of the other keys are
\* deleted.
CacheFileDumpEvicts(fs, key, type, once, p) ==
    FsResult([fs EXCEPT !.disk = [k \in DOMAIN fs.disk |->
                                     IF k # key THEN NoFiles
                                     ELSE [json |-> type, once |-> once, has_tmp |-> TRUE,
                                           tmp |-> <<>>, path |-> p]]],
             NoInfo, "none")

\* CacheFile.dump(key, info, data) with info["type"] = data["type"] = type and
\* data["path"] = p: the .json file is written; for a path the .tmp file is
\* written with str(p), for a type that is not recognised TypeError is raised.
CacheFileDump(fs, key, type, once, p) ==
    IF type = "path"
    THEN FsResult([fs EXCEPT !.disk[key] =
                       [json |-> type, once |-> once, has_tmp |-> TRUE, tmp |-> <<>>,
                        path |-> p]],
                  NoInfo, "none")
    ELSE FsResult([fs EXCEPT !.disk[key].json = type, !.disk[key].once = once],
                  NoInfo, "TypeError")

\* A remove that takes the file a path payload names for its own and deletes
\* it with the .tmp file.
CacheFileRemoveOwns(fs, key, rm_json, rm_tmp) ==
    LET f == fs.disk[key]
    IN IF f.json = "-" THEN FsResult(fs, NoInfo, "FileNotFoundError")
       ELSE FsResult([fs EXCEPT !.disk[key] = NoFiles,
                                !.ext = IF f.path \in Paths
                                        THEN [fs.ext EXCEPT ![f.path] = NoFile]
                                        ELSE fs.ext],
                     f.json, "none")

\* CacheFile.remove: the .json file is read; os.remove deletes it (rm_json) or
\* raises OSError, which is passed over; the same for the .tmp file (rm_tmp),
\* if there is one.
CacheFileRemove(fs, key, rm_json, rm_tmp) ==
    LET f == fs.disk[key]
    IN IF f.json = "-" THEN FsResult(fs, NoInfo, "FileNotFoundError")
       ELSE FsResult([fs EXCEPT !.disk[key] =
                          [json |-> IF rm_json THEN "-" ELSE f.json,
                           once |-> IF rm_json THEN FALSE ELSE f.once,
                           has_tmp |-> f.has_tmp /\ ~rm_tmp,
                           tmp |-> IF rm_tmp THEN <<>> ELSE f.tmp,
                           path |-> IF rm_tmp THEN NoKey ELSE f.path]],
                     f.json, "none")

\* The files become r.fs, the local variables io, and the call is recorded.
FsCall(op, key, r, io) ==
    /\ disk' = r.fs.disk
    /\ ext' = r.fs.ext
    /\ fio' = io
    /\ last' = [Call(op, key, NoVal, Result(Self, r.info, NoData, r.err, NoKey))
                   EXCEPT !.ok = r.ok]
    /\ UNCHANGED <<maxsize, curkeys, storage, touched, run, chunk_size, dumped>>
    /\ UNCHANGED <<svcVars, lockVars, queueVars, netVars, dirVars>>

\* The paths outside the folder that have a file; the others have none.
Present == {1}

\* CacheFile(cache_dir) on an empty folder
InitFolder ==
    \E present \in {Present} :
        /\ ConstructedCache(PlainInit(1))
        /\ queue = <<>> /\ bound = FALSE /\ qfunc = FALSE /\ finalizer = FALSE
        /\ registry = FALSE /\ listener = "none" /\ lmsg = Sentinel /\ fin = "no"
        /\ mirror = FALSE /\ sent = <<>> /\ applied = <<>>
        /\ disk = [k \in QueueKeys |-> NoFiles]
        /\ chunk_size = MB
        /\ fio = NoIO
        /\ dumped = [k \in QueueKeys |-> NoLength]
        /\ ext = [p \in Paths |-> IF p \in present THEN ExtFile(p) ELSE NoFile]
        /\ reqstream = NoStream
        /\ tempdir = NoDirs

\* key in cache
FileIsIn(key) ==
    /\ fio.op = "idle"
    /\ FsCall("is_in", key, [FsResult(Fs, NoInfo, "none") EXCEPT !.ok = CacheFileIsIn(Fs, key)],
              NoIO)

\* cache.dump(key, info, data) for a path or a type that is not recognised
FileDump(key, type, once, p) ==
    /\ fio.op = "idle"
    /\ FsCall("dump", key, CacheFileDump(Fs, key, type, once, p), NoIO)

\* cache.remove(key)
FileRemove(key) ==
    /\ fio.op = "idle"
    /\ \E rm_json \in BOOLEAN, rm_tmp \in BOOLEAN :
           FsCall("remove", key, CacheFileRemove(Fs, key, rm_json, rm_tmp), NoIO)

\* ServiceData._stream_data_to_loader, loader, after data(): for a path,
\* open(_data["path"], "rb"); fobj.seek(0); and StreamFinalizer.__enter__
Loader ==
    /\ fio.op \in {"path", "read"}
    /\ IF fio.op = "path" /\ ~ext[fio.path].exists
       THEN FsCall("enter", fio.key, FsResult(Fs, NoInfo, "FileNotFoundError"), NoIO)
       ELSE FsCall("enter", fio.key, FsResult(Fs, NoInfo, "none"),
                   [fio EXCEPT !.op = "stream",
                               !.src = IF fio.op = "path" THEN ext[fio.path].data
                                       ELSE disk[fio.key].tmp])

\* provider, the loop: data = _fobj.read(self.__chunk_size); while data: yield
\* data
StreamRead ==
    /\ fio.op = "stream"
    /\ LET data == BytesSlice(fio.src, fio.pos, chunk_size)
       IN FsCall("read", fio.key, FsResult(Fs, NoInfo, "none"),
                 IF Len(data) = 0 THEN [fio EXCEPT !.op = "exhausted"]
                 ELSE [fio EXCEPT !.pos = @ + BytesLen(data), !.got = BytesCat(@, data)])

\* StreamFinalizer.__exit__, when the loop is over, when the consumer closes
\* the stream at a yield and when read() raises: with a callback, at_closed
\* closes the handle and calls cache.remove(uid); truncate and close are not
\* set.
StreamExit ==
    /\ fio.op \in {"stream", "exhausted"}
    /\ IF fio.once
       THEN \E rm_json \in BOOLEAN, rm_tmp \in BOOLEAN :
                FsCall("exit", fio.key, CacheFileRemove(Fs, fio.key, rm_json, rm_tmp),
                       [fio EXCEPT !.op = "idle", !.calls = fio.calls + 1,
                                   !.closes = fio.closes + 1])
       ELSE FsCall("exit", fio.key, FsResult(Fs, NoInfo, "none"),
                   [fio EXCEPT !.op = "idle"])

NextFolder ==
    \/ \E key \in QueueKeys : FileIsIn(key)
    \/ \E key \in QueueKeys, type \in DumpTypes, once \in BOOLEAN, p \in Paths :
           FileDump(key, type, once, p)
    \/ \E key \in QueueKeys : FileDumpOpen(key, MB + 1)
    \/ FileDumpWrite
    \/ FileDumpClose
    \/ \E key \in QueueKeys : FileRemove(key)
    \/ \E key \in QueueKeys : FileLoad(key)
    \/ FileDeferred
    \/ Loader
    \/ StreamRead
    \/ StreamExit

\* A CacheFile whose entries are dumped, tested, removed and served.
SpecFolder == InitFolder /\ [][NextFolder]_vars

\* ------------------------------------------------------ StreamFinalizer
\* One StreamFinalizer (utilities.py) around a handle of HandleSize bytes, used
\* as `with StreamFinalizer(fobj, truncate, close, callback_on_exit) as f`,
\* statement by statement. The body reads chunks; it may end, or raise, after
\* any of them.

HandleSize == 2 * MB + 1

\* The statements of __exit__ with the callback last.
ExitStepsCallbackLast == <<"exit_truncate", "exit_close", "exit_seek", "exit_callback">>

\* The statements of __exit__, in the order of the code.
ExitSteps == <<"exit_seek", "exit_callback", "exit_truncate", "exit_close">>

\* The statement of __exit__ that follows at.
ExitAfter(at) ==
    LET i == CHOOSE j \in 1..Len(ExitSteps) : ExitSteps[j] = at
    IN IF i = Len(ExitSteps) THEN "done" ELSE ExitSteps[i + 1]

\* The local variables become io and the step is recorded.
FinalizerStep(op, io) == FsCall(op, NoKey, FsResult(Fs, NoInfo, "none"), io)

\* StreamFinalizer(fobj, truncate, close, callback_on_exit) around a handle
\* whose cursor is at the start or at the end
InitFinalizer ==
    \E truncate \in BOOLEAN, close \in BOOLEAN, callback \in BOOLEAN,
       pos \in {0, HandleSize} :
        /\ ConstructedCache(PlainInit(1))
        /\ queue = <<>> /\ bound = FALSE /\ qfunc = FALSE /\ finalizer = FALSE
        /\ registry = FALSE /\ listener = "none" /\ lmsg = Sentinel /\ fin = "no"
        /\ mirror = FALSE /\ sent = <<>> /\ applied = <<>>
        /\ disk = [k \in QueueKeys |-> NoFiles]
        /\ chunk_size = MB
        /\ fio = [NoIO EXCEPT !.op = "made", !.src = Bytes(0, HandleSize), !.pos = pos,
                              !.truncate = truncate, !.close = close,
                              !.callback = callback]
        /\ dumped = [k \in QueueKeys |-> NoLength]
        /\ ext = NoExt
        /\ reqstream = NoStream
        /\ tempdir = NoDirs

\* __enter__: self.__fobj.seek(0, io.SEEK_SET)
FinalizerEnter ==
    /\ fio.op = "made"
    /\ FinalizerStep("enter", [fio EXCEPT !.op = "entered", !.pos = 0])

\* The body of the with block reads a chunk.
FinalizerRead ==
    /\ fio.op = "entered"
    /\ fio.pos < BytesLen(fio.src)
    /\ LET data == BytesSlice(fio.src, fio.pos, chunk_size)
       IN FinalizerStep("read", [fio EXCEPT !.pos = @ + BytesLen(data),
                                           !.got = BytesCat(@, data)])

\* The body ends or raises: __exit__ begins.
ExitBegins ==
    /\ fio.op = "entered"
    /\ FinalizerStep("exit", [fio EXCEPT !.op = ExitSteps[1]])

\* __exit__: if self.__callback_on_exit is not None: self.__fobj.seek(0)
ExitSeek ==
    /\ fio.op = "exit_seek"
    /\ FinalizerStep("seek", [fio EXCEPT !.op = ExitAfter("exit_seek"),
                                         !.pos = IF fio.callback THEN 0 ELSE @])

\* __exit__: self.__callback_on_exit(self.__fobj): the callback reads from the
\* handle or leaves it.
ExitCallback ==
    /\ fio.op = "exit_callback"
    /\ IF fio.callback
       THEN \E pos \in {fio.pos, BytesLen(fio.src)} :
                FinalizerStep("callback",
                              [fio EXCEPT !.op = ExitAfter("exit_callback"),
                                          !.calls = @ + 1, !.pos = pos])
       ELSE FinalizerStep("no_callback", [fio EXCEPT !.op = ExitAfter("exit_callback")])

\* __exit__: if self.__truncate: self.__fobj.seek(0); self.__fobj.truncate(0)
ExitTruncate ==
    /\ fio.op = "exit_truncate"
    /\ IF fio.truncate
       THEN FinalizerStep("truncate", [fio EXCEPT !.op = ExitAfter("exit_truncate"),
                                                 !.pos = 0, !.src = <<>>, !.cut = @ + 1])
       ELSE FinalizerStep("no_truncate", [fio EXCEPT !.op = ExitAfter("exit_truncate")])

\* __exit__: if self.__close: self.__fobj.close()
ExitClose ==
    /\ fio.op = "exit_close"
    /\ IF fio.close
       THEN FinalizerStep("close", [fio EXCEPT !.op = ExitAfter("exit_close"),
                                              !.closes = @ + 1])
       ELSE FinalizerStep("no_close", [fio EXCEPT !.op = ExitAfter("exit_close")])

NextFinalizer ==
    \/ FinalizerEnter
    \/ FinalizerRead
    \/ ExitBegins
    \/ ExitSeek
    \/ ExitCallback
    \/ ExitTruncate
    \/ ExitClose

\* One handle in one scoped stream.
SpecFinalizer == InitFinalizer /\ [][NextFinalizer]_vars

\* ------------------------------------------------- DeferredRequestStream
\* One DeferredRequestStream (services/reqstream.py): provide() opens the
\* connection, refines the info from the response headers and returns a
\* generator; the consumer asks the generator for chunks and closes or drops
\* it. A text (a header value, a file name) is the sequence of its pieces.

\* The longest response, in chunks.
MaxChunks == 2

HeaderNames == {"Content-Length", "Content-Disposition", "Content-Type"}

\* The values of Content-Length, digit by digit.
LengthTexts == {<<"4", "2">>, <<"0">>, <<"0", "7">>}

\* The values of Content-Disposition.
Dispositions ==
    {<<"attachment">>,
     <<"attachment", ";", " ", "filename=", "report.pdf">>,
     <<"inline", ";", " ", "filename=", "a.txt", ";", " ", "filename=", "b.txt">>,
     <<"attachment", ";", " ", "filename=">>}

\* The values of Content-Type.
ContentTypes ==
    {<<"application/pdf">>,
     <<"text/html", ";", " ", "charset=utf-8">>,
     <<"text/plain", ";", "charset=utf-8", ";", "q=1">>}

\* The values of data["file_name_fallback"]: empty, or a name.
Fallbacks == {<<>>, <<"fallback.bin">>}

\* The response headers: any of the three may be missing.
HeaderSets ==
    {[h \in dom |-> IF h = "Content-Length" THEN len
                    ELSE IF h = "Content-Disposition" THEN disp ELSE ct] :
        dom \in SUBSET HeaderNames, len \in LengthTexts, disp \in Dispositions,
        ct \in ContentTypes}

\* int(c) for a digit
DigitOf(c) ==
    CASE c = "0" -> 0 [] c = "1" -> 1 [] c = "2" -> 2 [] c = "3" -> 3 [] c = "4" -> 4
      [] c = "5" -> 5 [] c = "6" -> 6 [] c = "7" -> 7 [] c = "8" -> 8 [] c = "9" -> 9

\* int(text)
RECURSIVE IntOf(_)
IntOf(text) ==
    IF Len(text) = 0 THEN 0
    ELSE 10 * IntOf(SubSeq(text, 1, Len(text) - 1)) + DigitOf(text[Len(text)])

\* sep in text
TextHas(text, sep) == \E i \in 1..Len(text) : text[i] = sep

\* text.rsplit(sep, maxsplit=1)[-1]
RSplitLast(text, sep) ==
    IF ~TextHas(text, sep) THEN text
    ELSE LET i == CHOOSE j \in 1..Len(text) :
                      text[j] = sep /\ \A k \in (j + 1)..Len(text) : text[k] # sep
         IN SubSeq(text, i + 1, Len(text))

\* text.split(sep, maxsplit=1)[0]
SplitFirst(text, sep) ==
    IF ~TextHas(text, sep) THEN text
    ELSE LET i == CHOOSE j \in 1..Len(text) :
                      text[j] = sep /\ \A k \in 1..(j - 1) : text[k] # sep
         IN SubSeq(text, 1, i - 1)

\* text.strip()
RECURSIVE Strip(_)
Strip(text) ==
    IF Len(text) = 0 THEN text
    ELSE IF text[1] = " " THEN Strip(Tail(text))
    ELSE IF text[Len(text)] = " " THEN Strip(SubSeq(text, 1, Len(text) - 1))
    ELSE text

\* An __update_info that takes the fallback name first.
UpdateInfoFallbackFirst(info, headers, fallback) ==
    LET has(h) == h \in DOMAIN headers
        sized == IF has("Content-Length")
                 THEN [info EXCEPT !.data_size = IntOf(headers["Content-Length"])]
                 ELSE info
        named == IF Len(fallback) > 0
                 THEN [sized EXCEPT !.file_name = fallback]
                 ELSE IF has("Content-Disposition")
                         /\ TextHas(headers["Content-Disposition"], "filename=")
                 THEN [sized EXCEPT !.file_name =
                           RSplitLast(headers["Content-Disposition"], "filename=")]
                 ELSE sized
    IN IF has("Content-Type")
       THEN [named EXCEPT !.content_type = Strip(headers["Content-Type"]),
                          !.mime_type = Strip(SplitFirst(Strip(headers["Content-Type"]), ";"))]
       ELSE named

\* DeferredRequestStream.__update_info
UpdateInfo(info, headers, fallback) ==
    LET has(h) == h \in DOMAIN headers
        sized == IF has("Content-Length")
                 THEN [info EXCEPT !.data_size = IntOf(headers["Content-Length"])]
                 ELSE info
        named == IF has("Content-Disposition")
                    /\ TextHas(headers["Content-Disposition"], "filename=")
                 THEN [sized EXCEPT !.file_name =
                           RSplitLast(headers["Content-Disposition"], "filename=")]
                 ELSE IF Len(fallback) > 0
                 THEN [sized EXCEPT !.file_name = fallback]
                 ELSE sized
    IN IF has("Content-Type")
       THEN [named EXCEPT !.content_type = Strip(headers["Content-Type"]),
                          !.mime_type = Strip(SplitFirst(Strip(headers["Content-Type"]), ";"))]
       ELSE named

\* DeferredRequestStream.close
StreamClosed(rs) == [rs EXCEPT !.request = FALSE, !.pool = FALSE]

\* The DeferredRequestStream becomes rs.
StreamBecomes(rs) ==
    /\ reqstream' = rs
    /\ UNCHANGED <<maxsize, curkeys, storage, last, touched, run>>
    /\ UNCHANGED <<svcVars, lockVars, queueVars, fileVars, dirVars>>

\* DeferredRequestStream(info, data)
InitRequest ==
    \E fallback \in Fallbacks :
        /\ ConstructedCache(PlainInit(1))
        /\ queue = <<>> /\ bound = FALSE /\ qfunc = FALSE /\ finalizer = FALSE
        /\ registry = FALSE /\ listener = "none" /\ lmsg = Sentinel /\ fin = "no"
        /\ mirror = FALSE /\ sent = <<>> /\ applied = <<>>
        /\ disk = [k \in QueueKeys |-> NoFiles]
        /\ chunk_size = MB
        /\ fio = NoIO
        /\ dumped = [k \in QueueKeys |-> NoLength]
        /\ ext = NoExt
        /\ reqstream = [NoStream EXCEPT !.fallback = fallback]
        /\ tempdir = NoDirs

\* provide(): fobj = self.__enter__(), which closes what is open, makes the
\* pool and sends the request (connected: the response has come, with headers
\* and chunks to read; else pool.request raises); self.__update_info(
\* fobj.headers); return provider(), a generator that has not started.
Provide(connected, headers, chunks) ==
    /\ reqstream.gen = "none"
    /\ LET entered == [StreamClosed(reqstream) EXCEPT !.pool = TRUE]
       IN IF ~connected
          THEN StreamBecomes([entered EXCEPT !.err = "MaxRetryError"])
          ELSE StreamBecomes([entered EXCEPT
                   !.request = TRUE, !.headers = headers, !.left = chunks,
                   !.info = UpdateInfo(reqstream.info, headers, reqstream.fallback),
                   !.gen = "created", !.err = "none"])

\* next(stream): the generator starts or goes on: with contextlib.closing(
\* self), data = fobj.read(chunk_size), which raises, returns a chunk, which is
\* yielded, or returns nothing, which ends the loop; leaving the with block
\* calls self.close().
ProviderNext(raises) ==
    /\ reqstream.gen \in {"created", "suspended"}
    /\ IF raises
       THEN StreamBecomes([StreamClosed(reqstream) EXCEPT !.gen = "closed",
                                                         !.err = "ProtocolError"])
       ELSE IF reqstream.left > 0
       THEN StreamBecomes([reqstream EXCEPT !.gen = "suspended", !.left = @ - 1,
                                            !.yielded = @ + 1])
       ELSE StreamBecomes([StreamClosed(reqstream) EXCEPT !.gen = "closed"])

\* stream.close(), or the generator is dropped: GeneratorExit is raised at the
\* yield it is suspended at, and leaving the with block calls self.close(); a
\* generator that has not started ends without running any of its body.
ProviderClose ==
    /\ reqstream.gen \in {"created", "suspended"}
    /\ IF reqstream.gen = "suspended"
       THEN StreamBecomes([StreamClosed(reqstream) EXCEPT !.gen = "closed"])
       ELSE StreamBecomes([reqstream EXCEPT !.gen = "closed"])

NextRequest ==
    \/ \E connected \in BOOLEAN, headers \in HeaderSets, chunks \in 0..MaxChunks :
           Provide(connected, headers, chunks)
    \/ \E raises \in BOOLEAN : ProviderNext(raises)
    \/ ProviderClose

\* A DeferredRequestStream whose provider is consumed.
SpecRequest == InitRequest /\ [][NextRequest]_vars

\* ------------------------------------------------- TempDir and CacheFile
\* The TempDir objects of a process (utilities.py), the folders they name and
\* the CacheFile instances built on them. A TempDir is collected when nothing
\* holds a reference to it; weakref.finalize then calls remove_temp_dir, and
\* calls it at the exit of the process for the TempDirs that are left.

\* A TempDir that is collected as soon as one holder lets it go.
CollectedEarly(obj) == TRUE

\* The TempDir obj is garbage: no CacheFile and no variable of the user refers
\* to it.
Collected(obj) == obj.held = {}

\* remove_temp_dir(path), in the main process: if os.path.isdir(path):
\* shutil.rmtree(path, ignore_errors=True)
RemoveTempDir(dirs, path) == [dirs EXCEPT ![path] = FALSE]

\* The finalizer of the TempDir d runs, if it is alive: it runs once.
Finalized(td, d) ==
    IF ~td.objs[d].alive THEN td
    ELSE [td EXCEPT !.objs[d].alive = FALSE, !.objs[d].runs = @ + 1,
                    !.dirs = RemoveTempDir(td.dirs, td.objs[d].path)]

\* The holder h lets go of the TempDir d.
Released(td, h, d) ==
    LET left == [td EXCEPT !.objs[d].held = @ \ {h}]
    IN IF Collected(left.objs[d]) THEN Finalized(left, d) ELSE left

\* The TempDirs created so far, and the next one.
Made(td) == {d \in 1..MaxDirs : td.objs[d].path # NoPath}

NextDir(td) == Cardinality(Made(td)) + 1

\* TempDir(path) held by h: mkdtemp() for None, os.makedirs(path,
\* exist_ok=True) otherwise, and a finalizer that is alive.
TempDirInit(td, path, h) ==
    LET d == NextDir(td)
        p == IF path = NoPath THEN FreshPath(d) ELSE path
    IN [td EXCEPT !.objs[d] = [path |-> p, alive |-> TRUE, held |-> {h}, runs |-> 0],
                  !.dirs[p] = TRUE]

\* The TempDirs, folders and CacheFiles become td; nothing else changes.
DirStep(td) ==
    /\ tempdir' = td
    /\ UNCHANGED <<maxsize, curkeys, storage, last, touched, run>>
    /\ UNCHANGED <<svcVars, lockVars, queueVars, fileVars, netVars>>

\* A process that has created nothing yet
InitDir ==
    /\ Constructed(PlainInit(1))

\* tmp = TempDir(path), or TempDir() when path is NoPath
TempDirNew(path) ==
    /\ ~tempdir.exited
    /\ NextDir(tempdir) <= MaxDirs
    /\ DirStep(TempDirInit(tempdir, path, User))

\* CacheFile(cache_dir): cache_dir if it is a TempDir (d), TempDir(cache_dir)
\* for a path or None.
CacheFileNew(c, d, path) ==
    /\ ~tempdir.exited
    /\ ~tempdir.caches[c].made
    /\ IF d # 0
       THEN /\ d \in Made(tempdir) /\ User \in tempdir.objs[d].held
            /\ DirStep([tempdir EXCEPT !.objs[d].held = @ \cup {c},
                                       !.caches[c] = [made |-> TRUE, live |-> TRUE,
                                                      dir |-> d]])
       ELSE /\ NextDir(tempdir) <= MaxDirs
            /\ DirStep([TempDirInit(tempdir, path, c)
                           EXCEPT !.caches[c] = [made |-> TRUE, live |-> TRUE,
                                                 dir |-> NextDir(tempdir)]])

\* del tmp: the user keeps no reference to the TempDir d.
UserDrops(d) ==
    /\ ~tempdir.exited
    /\ User \in tempdir.objs[d].held
    /\ DirStep(Released(tempdir, User, d))

\* The CacheFile c is collected, and with it its reference to its TempDir.
CacheDies(c) ==
    /\ ~tempdir.exited
    /\ tempdir.caches[c].live
    /\ DirStep(Released([tempdir EXCEPT !.caches[c].live = FALSE], c,
                        tempdir.caches[c].dir))

RECURSIVE FinalizedAll(_, _)
FinalizedAll(td, d) == IF d = 0 THEN td ELSE FinalizedAll(Finalized(td, d), d - 1)

\* The process exits: weakref.finalize runs the finalizers that are alive.
AtExit ==
    /\ ~tempdir.exited
    /\ DirStep([FinalizedAll(tempdir, MaxDirs)
                   EXCEPT !.exited = TRUE,
                          !.caches = [c \in Caches |-> [tempdir.caches[c]
                                                           EXCEPT !.live = FALSE]]])

NextDirs ==
    \/ \E path \in Paths \cup {NoPath} : TempDirNew(path)
    \/ \E c \in Caches, d \in 1..MaxDirs : CacheFileNew(c, d, NoPath)
    \/ \E c \in Caches, path \in Paths \cup {NoPath} : CacheFileNew(c, 0, path)
    \/ \E d \in 1..MaxDirs : UserDrops(d)
    \/ \E c \in Caches : CacheDies(c)
    \/ AtExit

\* The TempDirs and the CacheFiles of one process.
SpecDir == InitDir /\ [][NextDirs]_vars

\* ------------------------------------------------------- the constructors
\* The constructors of LRUDict, CachePlain, CacheQueue, CacheFile and
\* ServiceData, called with a size that may be zero or negative. The model
\* holds the object made last: before a constructor runs there is no LRUDict
\* (maxsize 0, no key), no listener, no folder (disk has no key) and no chunk
\* size. last is the record of the constructor call: its class (op), its size
\* (key), the qobj given to a CacheQueue (info), the error, and whether an
\* object was made (ok).

Classes == {"LRUDict", "CachePlain", "CacheQueue", "CacheFile", "ServiceData"}

\* The sizes the constructors are given.
Sizes == (0 - 1)..MaxCap

\* The folder that does not exist.
NoFolder == [k \in {} |-> NoFiles]

\* An LRUDict that refuses negative sizes only.
LRUAcceptsZero(size) == ~(size < 0)

\* LRUDict.__init__: if self.__maxsize <= 0: raise ValueError
LRUAccepts(size) == ~(size <= 0)

\* CachePlain.__init__, CacheQueue.__init__: if cache_size < 1: raise
\* ValueError; CacheFile.__init__, ServiceData.__init__: if chunk_size < 1:
\* raise ValueError
SizeAccepts(size) == ~(size < 1)

\* cls(size), or CacheQueue(size, qobj); the folder of a CacheFile is made by
\* TempDir, the cache of a ServiceData is one made before.
Construct(cls, size, qobj) ==
    LET err == IF cls = "LRUDict"
               THEN IF LRUAccepts(size) THEN "none" ELSE "ValueError"
               ELSE IF cls \in {"CachePlain", "CacheQueue"}
               THEN IF SizeAccepts(size) /\ LRUAccepts(size) THEN "none" ELSE "ValueError"
               ELSE IF SizeAccepts(size) THEN "none" ELSE "ValueError"
        made == err = "none"
        lru == made /\ cls \in {"LRUDict", "CachePlain", "CacheQueue"}
        chunked == made /\ cls \in {"CacheFile", "ServiceData"}
        started == made /\ cls = "CacheQueue" /\ qobj = "queue"
    IN /\ cls = "CacheQueue" \/ qobj = "none"
       /\ maxsize' = IF lru THEN size ELSE 0
       /\ curkeys' = <<>>
       /\ storage' = EmptyDict
       /\ chunk_size' = IF chunked THEN size * MB ELSE 0
       /\ disk' = IF made /\ cls = "CacheFile" THEN [k \in QueueKeys |-> NoFiles]
                  ELSE NoFolder
       /\ bound' = started
       /\ qfunc' = (made /\ cls = "CacheQueue" /\ qobj = "func")
       /\ listener' = IF started THEN "get" ELSE "none"
       /\ registry' = started
       /\ finalizer' = started
       /\ last' = [op |-> cls, key |-> size, val |-> NoVal, info |-> qobj, data |-> NoData,
                   err |-> err, old |-> NoKey, ok |-> made, had |-> FALSE, full |-> FALSE,
                   rt |-> FALSE]
       /\ UNCHANGED <<touched, run, svcVars, lockVars, queue, lmsg, fin, mirror, sent,
                      applied, fio, dumped, ext, netVars, dirVars>>

\* An entry is stored in the object made: d[key] = val for an LRUDict,
\* cache.dump(key, info, data) for a CachePlain and for a CacheFile (a path).
Store(key, val, p) ==
    /\ last.ok
    /\ last.op \in {"LRUDict", "CachePlain", "CacheFile"}
    /\ LET set == IF last.op = "LRUDict" THEN LRUSetItem(Self, key, val)
                  ELSE PlainDump(Self, key, val[1], val[2])
           dump == CacheFileDump(Fs, key, "path", FALSE, p)
       IN IF last.op = "CacheFile"
          THEN /\ disk' = dump.fs.disk
               /\ UNCHANGED <<curkeys, storage>>
          ELSE /\ curkeys' = set.d.keys
               /\ storage' = set.d.st
               /\ UNCHANGED disk
    /\ UNCHANGED <<maxsize, last, touched, run, svcVars, lockVars, queueVars, chunk_size,
                   fio, dumped, ext, netVars, dirVars>>

\* No object has been made.
InitConstruct ==
    /\ ConstructedCache([keys |-> <<>>, st |-> EmptyDict, maxsize |-> 0])
    /\ queue = <<>> /\ bound = FALSE /\ qfunc = FALSE /\ finalizer = FALSE
    /\ registry = FALSE /\ listener = "none" /\ lmsg = Sentinel /\ fin = "no"
    /\ mirror = FALSE /\ sent = <<>> /\ applied = <<>>
    /\ disk = NoFolder
    /\ chunk_size = 0
    /\ fio = NoIO
    /\ dumped = [k \in QueueKeys |-> NoLength]
    /\ ext = NoExt
    /\ reqstream = NoStream
    /\ tempdir = NoDirs

NextConstruct ==
    \/ \E cls \in Classes, size \in Sizes, qobj \in QobjArgs : Construct(cls, size, qobj)
    \/ \E key \in QueueKeys, val \in Values, p \in Paths : Store(key, val, p)

\* Objects are made, with any size, and entries are stored in them.
SpecConstruct == InitConstruct /\ [][NextConstruct]_vars

\* ------------------------------------------------------------- properties

\* The LRUDict after the step.
Post == [keys |-> curkeys', st |-> storage', maxsize |-> maxsize']

NoDuplicates(s) == \A i, j \in 1..Len(s) : i # j => s[i] # s[j]

\* C1: in every reachable state of an LRUDict of capacity maxsize, there are at
\* most maxsize entries, no key occurs twice in the recency order, and the keys
\* of the recency order are exactly the keys with a stored value.
C1_Bounded ==
    /\ Len(curkeys) <= maxsize
    /\ NoDuplicates(curkeys)
    /\ SeqSet(curkeys) = DOMAIN storage

\* A set has just evicted a key from a full LRUDict of two or more entries.
C1_Witness ==
    /\ last.op = "set" /\ last.old # NoKey
    /\ Len(curkeys) = maxsize /\ maxsize >= 2

\* C2: a set(k, v) that inserts a new key into a full LRUDict evicts the least
\* recently touched key, a touch being a successful get or set (load or dump).
C2_EvictsLeastRecentlyTouched ==
    [][(last'.op \in {"set", "dump"} /\ last'.old # NoKey) =>
          last'.old = touched[Len(touched)]]_vars

\* C3: a successful get(k) returns the stored value, makes k the most recent key
\* and changes neither the set of keys nor any stored value; a get of an absent
\* key raises KeyError and leaves the recency order and the storage unchanged.
C3_GetTouches ==
    [][last'.op = "get" =>
          IF last'.key \in DOMAIN storage
          THEN /\ last'.err = "none"
               /\ <<last'.info, last'.data>> = storage[last'.key]
               /\ curkeys'[1] = last'.key
               /\ SeqSet(curkeys') = SeqSet(curkeys)
               /\ storage' = storage
          ELSE /\ last'.err = "KeyError"
               /\ curkeys' = curkeys
               /\ storage' = storage]_vars

\* A get has just moved a key of a three-key LRUDict to the front.
C3_Witness ==
    /\ last.op = "get" /\ last.err = "none"
    /\ Len(curkeys) >= 3 /\ curkeys[1] = last.key

\* C4: contains(k) on the LRUDict and is_in(k) on the CachePlain answer whether k
\* is stored and change neither the recency order nor the storage, whether or
\* not k is present: between gets and sets the order changes at no such step.
C4_ContainsKeepsOrder ==
    [][last'.op \in {"contains", "is_in"} =>
          /\ curkeys' = curkeys
          /\ storage' = storage
          /\ last'.err = "none"
          /\ last'.ok = (last'.key \in DOMAIN storage)]_vars

\* is_in has just been asked for a present key that is not the most recent one.
C4_Witness ==
    /\ last.op = "is_in" /\ last.ok
    /\ Len(curkeys) >= 2 /\ curkeys[1] # last.key

\* C5: after set(k, v), or dump(k, info, data) with v = (info, data), k maps to v
\* and is the most recent key; when k was present the keys are the same (nothing
\* is evicted, also in a full map); when k was absent and the map full exactly
\* one other key is removed; when k was absent and the map not full the keys
\* grow by k; every entry that was there and is still there keeps its value.
C5_SetInserts ==
    [][last'.op \in {"set", "dump"} =>
          LET k == last'.key
          IN /\ last'.err = "none"
             /\ k \in DOMAIN storage' /\ storage'[k] = last'.val
             /\ curkeys'[1] = k
             /\ IF k \in DOMAIN storage
                THEN DOMAIN storage' = DOMAIN storage /\ last'.old = NoKey
                ELSE IF Len(curkeys) >= maxsize
                THEN /\ last'.old \in DOMAIN storage
                     /\ DOMAIN storage' = ((DOMAIN storage) \ {last'.old}) \cup {k}
                ELSE DOMAIN storage' = (DOMAIN storage) \cup {k} /\ last'.old = NoKey
             /\ Cardinality(DOMAIN storage') = Len(curkeys')
             /\ \A x \in (DOMAIN storage') \ {k} : storage'[x] = storage[x]]_vars

\* A dump has just replaced the value of a present key in a full cache.
C5_Witness ==
    /\ last.op = "dump" /\ last.had /\ last.full /\ last.old = NoKey
    /\ maxsize >= 2

\* The last n items of s, the last first.
LastReversed(s, n) == [i \in 1..n |-> s[Len(s) + 1 - i]]

\* C6: after dumps of more than maxsize different keys in a row, the cache holds
\* exactly the last maxsize of them, the latest first; load raises KeyError for
\* each of the others and returns the latest one.
C6_LastDumpsStay ==
    Len(run) > maxsize =>
        /\ curkeys = LastReversed(run, maxsize)
        /\ \A i \in 1..(Len(run) - maxsize) : PlainLoad(Self, run[i]).err = "KeyError"
        /\ PlainLoad(Self, run[Len(run)]).err = "none"

\* C7: on a CachePlain, a load(key) that directly follows dump(key, info, data)
\* returns the dumped info and a producer that returns the dumped data, whatever
\* the cache held before the dump.
C7_RoundTrip ==
    [][(last.op = "dump" /\ last'.op = "load" /\ last'.key = last.key) =>
          /\ last'.err = "none"
          /\ last'.info = last.val[1]
          /\ last'.data = last.val[2]]_vars

\* A load has just followed the dump of its key.
C7_Witness == last.op = "load" /\ last.rt /\ last.err = "none"

C9_OneTimeService ==
    [][/\ \A t \in Threads :
            (pc[t] \in {"exit", "at_closed", "del"} /\ pc'[t] = "idle") =>
                IF tinfo[t].one_time_service
                THEN ~PlainIsIn(Post, req[t]).ok /\ req[t] \in served'
                ELSE PlainIsIn(Post, req[t]).ok /\ req[t] \notin served'
       /\ \A uid \in served' : ~PlainIsIn(Post, uid).ok
       /\ \A t \in Threads : (pc[t] = "idle" /\ pc'[t] = "load") => req'[t] \notin served
       /\ (last' # last /\ last'.op = "stream" /\ last'.key \in served) =>
              last'.err = "FileNotFoundError"]_vars

\* A second stream request for a served one-time uid has just been refused.
C9_Witness ==
    /\ last.op = "stream" /\ last.err = "FileNotFoundError"
    /\ last.key \in served

\* C10: stream(uid) raises FileNotFoundError and no other error when uid is not,
\* or no longer, in the cache: no stream call ends with another error.
C10_StreamRaisesNotFound ==
    last.op = "stream" => last.err \in {"none", "FileNotFoundError"}

\* The call of thread t returns what Atomic gives on the LRUDict the thread
\* found, and leaves the LRUDict Atomic leaves.
ReturnsAtomic(t) ==
    LET a == Atomic(loc[t].op, loc[t].snap, loc[t].key, loc[t].val)
    IN /\ Post = a.d
       /\ last'.err = a.err
       /\ last'.info = a.info /\ last'.data = a.data
       /\ last'.ok = a.ok
       /\ last'.old = a.old

\* C11: every call of get, set, delete, contains and eldest_popitem made by
\* concurrent threads takes effect atomically, in the order in which the calls
\* take the lock: a call finds the LRUDict as the call before it left it, with
\* the key deque and the storage holding the same keys, and returns and leaves
\* what the same call gives when run alone on that LRUDict.
C11_CallsAreAtomic ==
    [][/\ \A t \in Threads :
            (pc[t] = "idle" /\ pc'[t] # "idle") =>
                /\ SeqSet(curkeys) = DOMAIN storage
                /\ \A u \in Threads \ {t} : pc[u] = "idle"
       /\ \A t \in Threads : (pc[t] = "ret" /\ pc'[t] = "idle") => ReturnsAtomic(t)
       /\ lock = NoThread => (curkeys' = curkeys /\ storage' = storage)]_vars

\* A set that evicted a key has returned and released the lock, and the
\* LRUDict is full.
C11_Witness ==
    /\ last.op = "set" /\ last.old # NoKey /\ last.err = "none"
    /\ lock = NoThread
    /\ Len(curkeys) = maxsize

IsPrefix(a, b) == Len(a) <= Len(b) /\ a = SubSeq(b, 1, Len(a))

\* The message the listener holds between its get and its set.
Held == IF listener = "set" THEN <<lmsg>> ELSE <<>>

\* The value of the last message of s for key (there is one).
LastFor(s, key) ==
    LET i == CHOOSE i \in 1..Len(s) :
                 s[i].key = key /\ \A j \in (i + 1)..Len(s) : s[j].key # key
    IN <<s[i].info, s[i].data>>

\* The listener has taken every message and set it in the map.
Drained == listener = "get" /\ queue = <<>> /\ Len(sent) > 0

\* C12: the listener sets the messages in the map in the order in which they
\* were put in the queue, one set per message, each set storing the message's
\* (info, payload) under its key; so once the queue is drained, load(key) in
\* the owner returns the info and payload of the last message enqueued for key,
\* and the key of the last message enqueued is there to load.
C12_ListenerKeepsOrder ==
    /\ [](IsPrefix(applied \o Held, sent))
    /\ [][/\ applied' # applied =>
               /\ applied' = Append(applied, lmsg)
               /\ lmsg.key \in DOMAIN storage'
               /\ storage'[lmsg.key] = <<lmsg.info, lmsg.data>>
          /\ (Drained /\ last' # last /\ last'.op = "load") =>
               /\ last'.key = sent[Len(sent)].key => last'.err = "none"
               /\ last'.err = "none" =>
                      <<last'.info, last'.data>> = LastFor(sent, last'.key)]_vars

\* The mirror has enqueued two different values for one key, the listener has
\* drained the queue, and the owner has loaded the second value.
C12_Witness ==
    /\ mirror /\ Drained /\ applied = sent
    /\ Len(sent) = 2 /\ sent[1].key = sent[2].key /\ sent[1] # sent[2]
    /\ last.op = "load" /\ last.err = "none" /\ last.key = sent[2].key
    /\ last.info = sent[2].info /\ last.data = sent[2].data

\* C13: with a listener that is scheduled fairly, the n-th message enqueued
\* before the sentinel is eventually the n-th message set in the map.
C13_EventuallyApplied ==
    \A n \in 1..MaxMsgs :
        (Len(sent) >= n) ~> (Len(applied) >= n /\ applied[n] = sent[n])

\* Every message enqueued has been set in the map, and there were as many as
\* a run enqueues.
C13_Witness == Len(sent) = MaxMsgs /\ applied = sent /\ listener = "get"

\* C14: on the owner of a CacheQueue, a load(key) that directly follows a
\* dump(key, info, payload) returns the dumped info and a producer of the
\* dumped payload, whether or not the listener has run in between.
C14_OwnerRoundTrip ==
    [][(last.op = "dump" /\ last.err = "none" /\ last'.op = "load"
        /\ last'.key = last.key) =>
          /\ last'.err = "none"
          /\ last'.info = last.val[1]
          /\ last'.data = last.val[2]]_vars

\* C15: a mirror is write-only: is_in returns false also for a key of the
\* owner's map, load and remove raise NotImplementedError, dump appends its
\* (key, info, payload) to the queue and does nothing else, and no call of the
\* mirror changes the owner's map.
C15_MirrorWriteOnly ==
    [][/\ (last' # last /\ last'.op = "mirror_is_in") =>
               ~last'.ok /\ last'.err = "none" /\ UNCHANGED <<curkeys, storage, queueVars>>
       /\ (last' # last /\ last'.op \in {"mirror_load", "mirror_remove"}) =>
               /\ last'.err = "NotImplementedError"
               /\ UNCHANGED <<curkeys, storage, queueVars>>
       /\ (Len(queue') > Len(queue) /\ last'.op = "mirror_dump") =>
               /\ queue' = Append(queue, [key |-> last'.key, info |-> last'.val[1],
                                           data |-> last'.val[2]])
               /\ last'.err = "none"
               /\ UNCHANGED <<curkeys, storage, bound, qfunc, finalizer, registry,
                              listener, lmsg, fin, mirror, applied>>]_vars

\* The mirror has answered false for a key that is in the owner's map.
C15_Witness == last.op = "mirror_is_in" /\ last.had /\ ~last.ok

\* C16: is_in, load and remove called on the owner in a process that is not
\* the main process each raise NotImplementedError.
C16_SubProcessRaises ==
    last.op \in {"sub_is_in", "sub_load", "sub_remove"} =>
        last.err = "NotImplementedError"

\* C17: once a queue is bound it stays bound, an assignment to qobj raises
\* ValueError and leaves the queue, the listener and the finalizer as they
\* were, and the listener is never started again; a dump on, or a mirror of, a
\* CacheQueue that has neither a queue nor a factory raises ValueError, puts
\* nothing in the queue and makes no mirror.
C17_QobjWriteOnce ==
    [][/\ bound => bound'
       /\ (bound /\ last' # last /\ last'.op = "set_qobj") =>
               last'.err = "ValueError" /\ UNCHANGED <<curkeys, storage, queueVars>>
       /\ (listener = "set" /\ listener' = "get") => applied' # applied
       /\ listener # "none" => listener' # "none"
       /\ (~bound /\ ~qfunc /\ last' # last /\ last'.op \in {"dump", "mirror"}) =>
               last'.err = "ValueError" /\ UNCHANGED <<curkeys, storage, queueVars>>]_vars

\* An assignment to qobj has been refused while the listener of the bound queue
\* had already filled the map.
C17_Witness ==
    /\ last.op = "set_qobj" /\ last.err = "ValueError"
    /\ bound /\ listener # "none" /\ Len(applied) > 0

\* C18: the finalizer puts the sentinel in the queue; with fair scheduling it
\* then completes, and when it has, the listener has set every message enqueued
\* before the sentinel, has terminated, and is out of the registry.
C18_FinalizerJoins ==
    /\ [][(fin = "no" /\ fin' # "no") => queue' = Append(queue, Sentinel)]_vars
    /\ (fin = "pop") ~> (fin = "done")
    /\ [](fin = "done" => (listener = "done" /\ ~registry /\ applied = sent))

\* The finalizer has completed after messages were enqueued, and a message the
\* mirror enqueued after the sentinel is left in the queue.
C18_Witness == fin = "done" /\ Len(sent) > 0 /\ Len(queue) > 0 /\ listener = "done"

\* C19: on a CachePlain the info and the producer returned by load(key) are
\* those of the entry resident when load ran: the thread keeps them unchanged
\* while other threads dump to the key, and the producer, whenever it is
\* called, returns the payload that was resident at load time.
C19_ProducerKeepsPayload ==
    [][\A t \in Threads :
          /\ (pc[t] = "idle" /\ pc'[t] = "loaded") =>
                 /\ loc'[t].key \in DOMAIN storage
                 /\ loc'[t].info = storage[loc'[t].key][1]
                 /\ loc'[t].data = storage[loc'[t].key][2]
                 /\ last'.info = loc'[t].info
          /\ (pc[t] = "loaded" /\ pc'[t] = "loaded") => loc'[t] = loc[t]
          /\ (pc[t] = "loaded" /\ pc'[t] = "idle") =>
                 /\ last'.op = "deferred"
                 /\ last'.data = loc[t].data
                 /\ last'.info = loc[t].info]_vars

\* A producer has returned its payload while the map holds another payload
\* under the key.
C19_Witness ==
    /\ last.op = "deferred" /\ last.key \in DOMAIN storage
    /\ storage[last.key][2] # last.data
    /\ storage[last.key][1] # last.info

\* C20: the .tmp file of a key holds, once the dump is over, exactly the bytes
\* of the stream dumped under the key, and the reader that reads the file
\* returned by load(key)'s producer to the end has read exactly those bytes,
\* whatever the length of the stream, the chunk size and the sizes it reads
\* with.
C20_BytesRoundTrip ==
    /\ \A k \in QueueKeys :
          (dumped[k] # NoLength /\ ~(fio.op = "dump" /\ fio.key = k)) =>
              disk[k].tmp = Bytes(0, dumped[k])
    /\ fio.op = "eof" =>
          /\ fio.got = Bytes(0, dumped[fio.key])
          /\ BytesLen(fio.got) = dumped[fio.key]

\* A stream one byte longer than the chunk size has been dumped and read back
\* to the end, while the other key holds a stream of two whole chunks.
C20_Witness ==
    /\ fio.op = "eof" /\ dumped[fio.key] = chunk_size + 1
    /\ fio.got = Bytes(0, chunk_size + 1)
    /\ \E k \in QueueKeys : k # fio.key /\ dumped[k] = 2 * chunk_size

\* C21: whenever CacheFile.remove(key) returns the metadata, the entry is
\* destroyed: the .json file of the key is gone, is_in(key) is false, and the
\* next load(key) or remove(key) raises FileNotFoundError, whether or not the
\* .tmp file could be deleted; remove(key) of a key that has no .json file
\* raises FileNotFoundError and changes no file.
C21_RemoveDestroys ==
    [][/\ (last.op = "remove" /\ last.err = "none") =>
              /\ disk[last.key].json = "-"
              /\ ~CacheFileIsIn(Fs, last.key)
              /\ (last'.key = last.key /\ last'.op \in {"load", "remove"}) =>
                     last'.err = "FileNotFoundError"
       /\ (fio.op = "idle" /\ last'.op = "remove" /\ disk[last'.key].json = "-") =>
              /\ last'.err = "FileNotFoundError"
              /\ disk' = disk
              /\ ext' = ext]_vars

\* The step is a remove(k): the call, or the one made by at_closed.
Removes(k) == last'.op \in {"remove", "exit"} /\ last'.key = k

\* C22: a CacheFile evicts nothing. An entry that is in the cache stays in it,
\* with is_in true and load returning, over every step that is not a remove of
\* its key; and a dump of one key, each step of it, leaves the .json and .tmp
\* files of every other key as they are.
C22_NeverEvicts ==
    [][\A k \in QueueKeys :
          /\ (CacheFileIsIn(Fs, k) /\ ~Removes(k)) =>
                 /\ CacheFileIsIn([disk |-> disk', ext |-> ext'], k)
                 /\ (last'.op = "load" /\ last'.key = k) => last'.err = "none"
          /\ ((last'.op = "dump" \/ fio.op = "dump") /\ last'.key # k) =>
                 disk'[k] = disk[k]]_vars

\* A stream has been dumped under key 1, later a path under key 2, and both
\* are in the cache.
C22_Witness ==
    /\ last.op = "dump" /\ last.key = 2 /\ last.err = "none"
    /\ disk[2].json = "path"
    /\ disk[1].json = "bytes" /\ disk[1].tmp = Bytes(0, MB + 1)
    /\ CacheFileIsIn(Fs, 1) /\ CacheFileIsIn(Fs, 2)

\* C23: of a payload of the kind "path" the CacheFile stores the path only,
\* and the file at the path is never its own: no step (dump, remove, load, a
\* served stream and its finalization by at_closed) deletes or changes a file
\* outside the folder, every step changes the .json and .tmp files of its own
\* key only, and the .tmp file of a path that was dumped holds the path and
\* none of the bytes of the file.
C23_PathNotOwned ==
    [][/\ ext' = ext
       /\ \A k \in QueueKeys : last'.key # k => disk'[k] = disk[k]
       /\ (last'.op = "dump" /\ last'.err = "none" /\ disk'[last'.key].json = "path") =>
              /\ disk'[last'.key].path \in Paths
              /\ disk'[last'.key].tmp = <<>>]_vars

\* The one-time entry of the path 1 has been served to its last byte and
\* removed by at_closed, and the file at the path is as it was.
C23_Witness ==
    /\ last.op = "exit" /\ last.err = "none"
    /\ fio.once /\ fio.path = 1 /\ fio.got = Bytes(0, MB + 1)
    /\ disk[fio.key] = NoFiles
    /\ ext[1] = ExtFile(1)

\* C24: for every stream whose scope (StreamFinalizer) has been entered, once
\* the scope is left the finalize callback has run exactly once and the handle
\* has been closed exactly once, whether the loop came to its end, the consumer
\* dropped the stream at a yield or a read raised; and neither runs twice.
C24_FinalizedOnce ==
    /\ fio.calls <= 1 /\ fio.closes <= 1
    /\ last.op = "exit" => (fio.calls = 1 /\ fio.closes = 1)

\* C25: once provide() has opened the connection, every way the returned
\* generator ends (read to the end, closed after some chunks, closed or
\* dropped before its first chunk is asked for, a read that raises) leaves no
\* request and no pool held.
C25_Released ==
    reqstream.gen = "closed" => (~reqstream.request /\ ~reqstream.pool)

\* The number a Content-Length of the responses stands for.
SizeOf(text) ==
    CASE text = <<"4", "2">> -> 42
      [] text = <<"0">> -> 0
      [] text = <<"0", "7">> -> 7

\* C26: the info after provide() is the info before it with, from the response
\* headers: data_size the number of Content-Length when there is one;
\* file_name the text after the last "filename=" of Content-Disposition when
\* it has one, else the fallback name when that is not empty, else unchanged;
\* content_type the Content-Type when there is one and mime_type its part
\* before the first ";"; every other field unchanged.
C26_HeaderMapping ==
    reqstream.gen # "none" =>
        LET h == reqstream.headers
            info == reqstream.info
            has(n) == n \in DOMAIN h
            named == has("Content-Disposition")
                     /\ \E i \in 1..Len(h["Content-Disposition"]) :
                            h["Content-Disposition"][i] = "filename="
        IN /\ info.data_size = IF has("Content-Length") THEN SizeOf(h["Content-Length"])
                               ELSE RequestInfo.data_size
           /\ named =>
                  \E i \in 1..Len(h["Content-Disposition"]) :
                      /\ h["Content-Disposition"][i] = "filename="
                      /\ \A k \in (i + 1)..Len(h["Content-Disposition"]) :
                             h["Content-Disposition"][k] # "filename="
                      /\ info.file_name = [k \in 1..(Len(h["Content-Disposition"]) - i) |->
                                              h["Content-Disposition"][i + k]]
           /\ ~named =>
                  info.file_name = IF reqstream.fallback # <<>> THEN reqstream.fallback
                                   ELSE RequestInfo.file_name
           /\ has("Content-Type") =>
                  /\ info.content_type = h["Content-Type"]
                  /\ \E n \in 0..Len(h["Content-Type"]) :
                         /\ \A k \in 1..n : h["Content-Type"][k] # ";"
                         /\ n = Len(h["Content-Type"]) \/ h["Content-Type"][n + 1] = ";"
                         /\ info.mime_type = [k \in 1..n |-> h["Content-Type"][k]]
           /\ ~has("Content-Type") =>
                  /\ info.content_type = RequestInfo.content_type
                  /\ info.mime_type = RequestInfo.mime_type
           /\ info.type = RequestInfo.type
           /\ info.one_time_service = RequestInfo.one_time_service

\* The response of the example: Content-Length 42, "attachment;
\* filename=report.pdf" and application/pdf have given the size 42, the name
\* report.pdf and the mime type application/pdf, though there is a fallback
\* name.
C26_Witness ==
    /\ reqstream.gen # "none"
    /\ DOMAIN reqstream.headers = HeaderNames
    /\ reqstream.headers["Content-Length"] = <<"4", "2">>
    /\ reqstream.headers["Content-Disposition"] =
           <<"attachment", ";", " ", "filename=", "report.pdf">>
    /\ reqstream.headers["Content-Type"] = <<"application/pdf">>
    /\ reqstream.fallback # <<>>
    /\ reqstream.info.data_size = 42
    /\ reqstream.info.file_name = <<"report.pdf">>
    /\ reqstream.info.mime_type = <<"application/pdf">>

\* C27: a constructor of LRUDict, CachePlain, CacheQueue, CacheFile or
\* ServiceData that is given a size of zero or less raises ValueError and
\* makes nothing: there is no object, no listener has been started and no
\* folder has been made; so wherever an entry is stored, the size is at least
\* one.
C27_ConstructorsRefuse ==
    /\ (last.op \in Classes /\ last.key <= 0) =>
           /\ last.err = "ValueError" /\ ~last.ok
           /\ maxsize = 0 /\ curkeys = <<>> /\ DOMAIN storage = {}
           /\ listener = "none" /\ ~registry /\ ~finalizer /\ ~bound
           /\ DOMAIN disk = {} /\ chunk_size = 0
    /\ (DOMAIN storage # {} \/ \E k \in DOMAIN disk : disk[k].json # "-") =>
           (last.ok /\ last.key >= 1)

\* CacheQueue(0, queue) has raised ValueError and no listener runs.
C27_Witness ==
    /\ last.op = "CacheQueue" /\ last.key = 0 /\ last.info = "queue"
    /\ last.err = "ValueError"
    /\ listener = "none"

\* C28: del d[k] of a stored key removes the entry of k and nothing else: one
\* key less, the other keys in the order they had, with the values they had;
\* del d[k] of a key that is not stored raises KeyError and leaves the map as
\* it was, also when k is the key the set just before has evicted.
C28_Delete ==
    [][last'.op = "del" =>
          LET k == last'.key
          IN /\ (last.op = "set" /\ last.old = k) => last'.err = "KeyError"
             /\ IF k \in DOMAIN storage
                THEN /\ last'.err = "none"
                     /\ Len(curkeys') = Len(curkeys) - 1
                     /\ curkeys' = SelectSeq(curkeys, LAMBDA x : x # k)
                     /\ DOMAIN storage' = (DOMAIN storage) \ {k}
                     /\ \A x \in DOMAIN storage' : storage'[x] = storage[x]
                ELSE /\ last'.err = "KeyError"
                     /\ curkeys' = curkeys
                     /\ storage' = storage]_vars

\* A stored key has been deleted and two keys are left.
C28_Witness ==
    /\ last.op = "del" /\ last.had /\ last.err = "none"
    /\ Len(curkeys) = 2 /\ last.key \notin DOMAIN storage

\* C29: eldest_popitem removes and returns the least recent pair as one atomic
\* step. The key a call returns is the one eldest gave when the call took the
\* lock, the call leaves that key absent and every other entry and the order as
\* they were, the key is stored until then, so that no second call returns the
\* same pair, and no thread observes the key deque and the storage holding
\* different keys: the copy a thread takes at any time holds the same keys in
\* both.
C29_PopIsAtomic ==
    [][/\ \A t \in Threads :
            (/\ pc[t] = "ret" /\ pc'[t] = "idle"
             /\ loc[t].op = "eldest_popitem" /\ loc[t].err = "none") =>
                LET snap == loc[t].snap
                IN /\ last'.old = snap.keys[Len(snap.keys)]
                   /\ last'.old \in DOMAIN snap.st
                   /\ <<last'.info, last'.data>> = snap.st[last'.old]
                   /\ last'.old \notin DOMAIN storage'
                   /\ last'.old \notin SeqSet(curkeys')
                   /\ curkeys' = DequePop(snap.keys)
                   /\ storage' = DictDel(snap.st, last'.old)
       /\ last'.op = "copy" => last'.ok]_vars

\* C30: iterating an LRUDict, directly or through keys(), items() or values(),
\* yields the keys from the most recently touched one to the least recently
\* touched one, and neither the iteration nor the look-ups of the views change
\* the recency order or the storage.
C30_IterationKeepsOrder ==
    [][last'.op \in IterOps =>
          /\ LRUIter(Self) = touched
          /\ last'.err = "none"
          /\ curkeys' = curkeys
          /\ storage' = storage]_vars

\* C31: move_to_recent(k), as made by a successful get and by a set of a stored
\* key, changes only the position of k: the other keys keep their relative
\* order, wherever k was in the key deque.
C31_MoveKeepsOthers ==
    [][(/\ last'.op \in {"get", "set"} /\ last'.err = "none"
        /\ last'.key \in DOMAIN storage) =>
          /\ curkeys'[1] = last'.key
          /\ Without(curkeys', last'.key) = Without(curkeys, last'.key)]_vars

\* C32: a dump on the owner of a CacheQueue appends its (key, info, payload)
\* to the queue and leaves the map as it is, also when it raises; the entries
\* of the owner's map change only at a set of the listener thread and at a
\* remove made in the main process.
C32_DumpOnlyEnqueues ==
    [][/\ (Len(queue') > Len(queue) /\ last'.op = "dump") =>
               /\ queue' = Append(queue, [key |-> last'.key, info |-> last'.val[1],
                                           data |-> last'.val[2]])
               /\ curkeys' = curkeys /\ storage' = storage
       /\ (last' # last /\ last'.op = "dump") =>
               curkeys' = curkeys /\ storage' = storage
       /\ storage' # storage =>
               \/ /\ listener = "set" /\ listener' = "get"
                  /\ applied' = Append(applied, lmsg)
                  /\ last' = last
               \/ /\ last'.op = "remove" /\ last'.err = "none"
                  /\ storage' = DictDel(storage, last'.key)]_vars

\* The owner has dumped a new value for a key of its map: the message is the
\* last one in the queue and the map still holds the old value.
C32_Witness ==
    /\ last.op = "dump" /\ last.err = "none"
    /\ Len(queue) > 0
    /\ queue[Len(queue)] = [key |-> last.key, info |-> last.val[1], data |-> last.val[2]]
    /\ last.key \in DOMAIN storage
    /\ storage[last.key] # last.val

\* C33: for one owning CacheQueue at most one listener thread is ever started
\* and the deferred factory is invoked at most once, whatever the threads that
\* make its first uses do at the same time.
C33_OneListener ==
    /\ Cardinality(Starters) <= 1
    /\ Cardinality(Invoked) <= 1

Count(flag) == IF flag THEN 1 ELSE 0

\* C34: in a scoped stream the cursor is at the start after entry; on exit the
\* callback, if there is one, is called with the cursor at the start and
\* before anything is truncated or closed, a requested truncation comes after
\* the callback and before the close, a requested close comes last, and each
\* runs once.
C34_CallbackBeforeClose ==
    [][/\ (fio.op = "made" /\ fio'.op = "entered") => fio'.pos = 0
       /\ fio'.calls > fio.calls =>
               fio.callback /\ fio.pos = 0 /\ fio.cut = 0 /\ fio.closes = 0
       /\ fio'.cut > fio.cut =>
               fio.truncate /\ fio.calls = Count(fio.callback) /\ fio.closes = 0
       /\ fio'.closes > fio.closes =>
               /\ fio.close
               /\ fio.calls = Count(fio.callback)
               /\ fio.cut = Count(fio.truncate)
       /\ (fio.op # "done" /\ fio'.op = "done") =>
               /\ fio'.calls = Count(fio.callback)
               /\ fio'.cut = Count(fio.truncate)
               /\ fio'.closes = Count(fio.close)]_vars

\* A stream with a callback, truncation and close, entered with the cursor at
\* the end and left after one chunk was read, has run all three.
C34_Witness ==
    /\ fio.op = "done"
    /\ fio.callback /\ fio.truncate /\ fio.close
    /\ fio.calls = 1 /\ fio.cut = 1 /\ fio.closes = 1
    /\ BytesLen(fio.got) = MB

\* The live CacheFile c of td keeps its files in the folder p.
Uses(td, c, p) == td.caches[c].live /\ td.objs[td.caches[c].dir].path = p

\* The folder p is deleted at this step.
Deleted(p) == tempdir.dirs[p] /\ ~tempdir'.dirs[p]

\* The folder of a TempDir made without a path is the folder of no other one.
FreshIsOwn(td) ==
    \A d \in Made(td), e \in Made(td) :
        (td.objs[d].path \notin Paths /\ d # e) => td.objs[d].path # td.objs[e].path

C36_RemoveReturnsDestroyed ==
    [][\A t \in Threads :
          (pc[t] = "remove_del" /\ pc'[t] = "idle" /\ last'.err = "none") =>
              /\ loc[t].key \in DOMAIN storage
              /\ loc[t].key \notin DOMAIN storage'
              /\ last'.info = storage[loc[t].key][1]]_vars

\* C37: when two consumers stream the same one-time entry concurrently, a
\* consumer that has passed the membership test and the load never takes a step
\* of its stream on a handle the other has truncated and closed, and its stream
\* ends without raising.
C37_ConcurrentOneTime ==
    [][\A t \in Threads :
          (pc[t] \in {"enter", "read", "exit"} /\ pc'[t] # pc[t]) =>
              /\ ~HandleClosed(req[t])
              /\ pc'[t] = "idle" => last'.err = "none"]_vars

\* C38: the handle a stream has opened through the deferred producer (the file
\* at the path of a path entry, the .tmp file of a file-backed entry) is closed
\* when the stream has finished, for one-time entries and for the others alike.
C38_NoHandleLeftOpen ==
    \A once \in BOOLEAN :
        (last.op = "exit" /\ fio.once = once) => fio.closes > 0

\* C39: a CacheFile.dump that raises leaves the files of the cache as they were
\* before the call, so that a key that was absent has no sidecar file, is not
\* in the cache and cannot be loaded or removed; and is_in(key) is true exactly
\* when load(key) succeeds.
C39_FailedDumpLeavesCache ==
    [][/\ (last' # last /\ last'.op = "dump" /\ last'.err # "none") => disk' = disk
       /\ \A key \in QueueKeys :
              CacheFileIsIn([disk |-> disk', ext |-> ext'], key) <=> disk'[key].json # "-"]_vars

\* C40: the chunk size of a CacheFile is at least one megabyte in every state,
\* whatever the constructor and the setter were given, and a dump of a stream
\* that is not empty, once over, has copied bytes to the .tmp file.
C40_ChunkSizePositive ==
    /\ chunk_size >= MB
    /\ (fio.op = "idle" /\ last.op = "dump" /\ dumped[last.key] > 0) =>
           BytesLen(disk[last.key].tmp) > 0

====
